---------------------------- MODULE Spec2Model ----------------------------
(***************************************************************************)
(* Supervisor integration agent: the orchestration core.                   *)
(*   registry.py  load_registry, find_agent_by_name                        *)
(*   executor.py  resolve_input, call_agent_with_trigger, execute_plan     *)
(*   planner.py   plan_tools_with_llm, _validate_steps                     *)
(*   answer.py    compose_final_answer, format_review_as_markdown          *)
(*   server.py    handle_query: plan, execute, answer, conversation turns  *)
(*   agents/focus_enforcer_service.py  monitor_loop, analyze_focus and the *)
(*                request handlers of the focus enforcer                   *)
(* Python strings are TLA+ strings (Len, SubSeq and \o act on them), an    *)
(* Optional[T] is a sequence of length at most one, a Dict[int, T] is a    *)
(* sequence of key/value entries in insertion order.                       *)
(***************************************************************************)
EXTENDS Integers, Sequences, FiniteSets, TLC

VARIABLES
    query,          \* execute_plan: the query argument
    plan,           \* execute_plan: plan.steps
    registry,       \* execute_plan: the registry argument
    pc,             \* execute_plan: position of the coroutine
    idx,            \* execute_plan: 1-based position of the for loop in plan.steps
    step_outputs,   \* execute_plan: Dict[int, AgentResponse], insertion ordered
    used_agents,    \* execute_plan: List[UsedAgentEntry]
    in_flight,      \* request ids of worker calls started and not yet answered
    calls,          \* every worker call started so far, in dispatch order
    arg_input_source,   \* resolve_input: the input_source argument
    arg_user_query,     \* resolve_input: the user_query argument
    arg_step_outputs,   \* resolve_input: the step_outputs argument
    ret_resolve_input,  \* resolve_input: None before the call, then the returned text
    arg_query,          \* plan_tools_with_llm: the query argument
    arg_registry,       \* plan_tools_with_llm: the registry argument
    llm_configured,     \* plan_tools_with_llm: _get_openrouter_client() returns a client
    llm_calls,          \* plan_tools_with_llm: chat completion requests sent so far
    llm_reply,          \* plan_tools_with_llm: None, then what the chat completion gave back
    planner_raised,     \* plan_tools_with_llm: left by an exception
    ret_plan,           \* plan_tools_with_llm: None before the call, then the steps returned
    arg_answer_query,   \* compose_final_answer: the query argument
    arg_answer_outputs, \* compose_final_answer: the step_outputs argument
    answer_backend,     \* compose_final_answer: how the OpenRouter backend behaves
    answer_llm_calls,   \* compose_final_answer: chat completion requests sent so far
    answer_raised,      \* compose_final_answer: left by an exception
    ret_answer,         \* compose_final_answer: None before the call, then the text returned
    runs,               \* concurrent requests: the frame of each execute_plan coroutine
    heap,               \* concurrent requests: the dict and list objects the frames refer to
    state,              \* focus enforcer: the MonitoringState object
    tasks,              \* focus enforcer: the frame of every asyncio task created so far
    ready,              \* focus enforcer: the event loop's queue of tasks to be stepped
    inbox,              \* focus enforcer: what may still happen: requests, sleeps running out
    shown,              \* focus enforcer: the commands whose popup was handed to the OS
    now,                \* focus enforcer: time.time()
    co,                 \* focus enforcer: the Cohere client: None, or the answers it can give
    conversation_log,   \* server: the turns of every conversation, in the order appended
    handling            \* server: the /api/query requests received, one frame each

execVars == <<query, plan, registry, pc, idx, step_outputs, used_agents,
              in_flight, calls>>

resolveVars == <<arg_input_source, arg_user_query, arg_step_outputs, ret_resolve_input>>

plannerVars == <<arg_query, arg_registry, llm_configured, llm_calls, llm_reply,
                 planner_raised, ret_plan>>

answerVars == <<arg_answer_query, arg_answer_outputs, answer_backend, answer_llm_calls,
                answer_raised, ret_answer>>

concurrentVars == <<runs, heap>>

focusVars == <<state, tasks, ready, inbox, shown, now, co>>

queryVars == <<conversation_log, handling>>

vars == <<execVars, resolveVars, plannerVars, answerVars, concurrentVars, focusVars, queryVars>>

(***************************************************************************)
(* Bounds of the model.                                                    *)
(***************************************************************************)
MaxSteps == 2       \* longest plan handed to execute_plan
MaxPhrases == 2     \* a planner query is made of at most this many phrases
MaxRawSteps == 2    \* longest steps list in a reply of the planner's LLM
MaxOutcomes == 2    \* largest outcome map handed to compose_final_answer

(***************************************************************************)
(* Optional values.                                                        *)
(***************************************************************************)
None == <<>>
Some(x) == <<x>>
IsSome(o) == o # <<>>
Unwrap(o) == o[1]

Max(S) == CHOOSE m \in S : \A n \in S : n <= m

(***************************************************************************)
(* registry.py                                                             *)
(***************************************************************************)
AgentMetadata(n, its, ep) == [name |-> n, intents |-> its, type |-> "http", endpoint |-> ep]

load_registry ==
    << AgentMetadata("progress_accountability_agent", <<"progress.track">>,
                     "https://example.com/progress/handle"),
       AgentMetadata("email_priority_agent", <<"email.priority.classify">>,
                     "https://spm-email-priority-agent.onrender.com/handle"),
       AgentMetadata("document_summarizer_agent",
                     <<"summary.create", "summarize_document", "summarize_text",
                       "extract_key_points", "identify_risks", "extract_action_items">>,
                     "http://5.161.59.136:8000/api/agent/execute"),
       AgentMetadata("meeting_followup_agent",
                     <<"meeting.followup", "meeting.process", "meeting.analyze",
                       "action_items.extract">>,
                     "https://meeting-minutes-backend-spm-production.up.railway.app/agents/supervisor/meeting-followup"),
       AgentMetadata("onboarding_buddy_agent",
                     <<"onboarding.create", "onboarding.update", "onboarding.check_progress",
                       "employee.create", "employee.update", "employee.check_status">>,
                     "https://onboardingbuddyagent-production.up.railway.app/execute"),
       AgentMetadata("KnowledgeBaseBuilderAgent",
                     <<"create_task", "add_task", "task.create", "task.add">>,
                     "http://vps.zaim-abbasi.tech/knowledge-builder/message"),
       AgentMetadata("task_dependency_agent", <<"task.resolve_dependencies">>,
                     "https://task-dependency-agent.vercel.app/task"),
       AgentMetadata("productivity_agent",
                     <<"productivity.analyze", "productivity.report", "goal.create",
                       "goal.update", "reflection.add", "productivity.insights",
                       "productivity.accountability">>,
                     "https://spm-agent-api-production.up.railway.app/agent/json"),
       AgentMetadata("deadline_guardian_agent", <<"deadline.monitor">>,
                     "https://deadlinegaurdianagent-production.up.railway.app/handle"),
       AgentMetadata("focus_enforcer_agent",
                     <<"focus.analyze", "focus.start_monitoring", "focus.stop_monitoring",
                       "focus.check_status", "productivity.assess">>,
                     "http://localhost:8001/handle"),
       AgentMetadata("budget_tracker_agent",
                     <<"budget.check", "budget.update", "budget.predict", "budget.recommend",
                       "budget.analyze", "budget.report", "budget.question", "budget.list">>,
                     "https://budget-tracker-agent.onrender.com/api/query"),
       AgentMetadata("document_reviewer_agent",
                     <<"document.review", "document.review.spelling",
                       "document.review.grammar", "document.review.compliance">>,
                     "https://document-reviewer-agent.onrender.com/handle") >>

\* find_agent_by_name: the position of the first agent of that name; 0 stands
\* for the KeyError the function raises when there is none.
find_agent_by_name(name, reg) ==
    IF \E i \in 1..Len(reg) : reg[i].name = name
    THEN CHOOSE i \in 1..Len(reg) :
            /\ reg[i].name = name
            /\ \A j \in 1..(i - 1) : reg[j].name # name
    ELSE 0

(***************************************************************************)
(* Dict[int, AgentResponse]: entries in insertion order; assigning to a    *)
(* key already present replaces the value and keeps the entry's place.     *)
(***************************************************************************)
Keys(d) == {d[i].key : i \in 1..Len(d)}
HasKey(d, k) == k \in Keys(d)
Get(d, k) == (CHOOSE i \in 1..Len(d) : d[i].key = k) 
DictGet(d, k) == IF HasKey(d, k) THEN Some(d[Get(d, k)].val) ELSE None
DictSet(d, k, v) ==
    IF HasKey(d, k)
    THEN [i \in 1..Len(d) |-> IF d[i].key = k THEN [key |-> k, val |-> v] ELSE d[i]]
    ELSE Append(d, [key |-> k, val |-> v])

(***************************************************************************)
(* Python string and conversion primitives used by resolve_input.          *)
(***************************************************************************)
StartsWith(s, p) == Len(s) >= Len(p) /\ SubSeq(s, 1, Len(p)) = p

\* position of the first occurrence of the one-character string c in s, 0 if none
IndexOf(s, c) ==
    IF \E i \in 1..Len(s) : SubSeq(s, i, i) = c
    THEN CHOOSE i \in 1..Len(s) :
            /\ SubSeq(s, i, i) = c
            /\ \A j \in 1..(i - 1) : SubSeq(s, j, j) # c
    ELSE 0

SplitHeadWhole(s, c) == s
\* s.split(c)[0] and, when c occurs in s, c.join(s.split(c)[1:])
SplitHead(s, c) == IF IndexOf(s, c) = 0 THEN s ELSE SubSeq(s, 1, IndexOf(s, c) - 1)
SplitRest(s, c) == SubSeq(s, IndexOf(s, c) + 1, Len(s))

DigitValue(c) ==
    CASE c = "0" -> 0 [] c = "1" -> 1 [] c = "2" -> 2 [] c = "3" -> 3 [] c = "4" -> 4
      [] c = "5" -> 5 [] c = "6" -> 6 [] c = "7" -> 7 [] c = "8" -> 8 [] c = "9" -> 9
      [] OTHER -> -1

RECURSIVE Strip(_)
Strip(s) ==
    IF s = "" THEN s
    ELSE IF SubSeq(s, 1, 1) = " " THEN Strip(SubSeq(s, 2, Len(s)))
    ELSE IF SubSeq(s, Len(s), Len(s)) = " " THEN Strip(SubSeq(s, 1, Len(s) - 1))
    ELSE s

RECURSIVE DigitsValue(_, _)
DigitsValue(s, acc) ==
    IF s = "" THEN acc
    ELSE DigitsValue(SubSeq(s, 2, Len(s)), 10 * acc + DigitValue(SubSeq(s, 1, 1)))

AllDigits(s) == s # "" /\ \A i \in 1..Len(s) : DigitValue(SubSeq(s, i, i)) >= 0

\* int(s): surrounding blanks and one sign are accepted; None stands for ValueError
ParseInt(s) ==
    LET t == Strip(s)
        signed == t # "" /\ SubSeq(t, 1, 1) \in {"+", "-"}
        digits == IF signed THEN SubSeq(t, 2, Len(t)) ELSE t
    IN  IF ~AllDigits(digits) THEN None
        ELSE IF signed /\ SubSeq(t, 1, 1) = "-" THEN Some(0 - DigitsValue(digits, 0))
        ELSE Some(DigitsValue(digits, 0))

\* str(x) of a JSON value: a string is itself, a number its decimal digits,
\* null is "None"
PyStr(r) ==
    CASE r.t = "str" -> r.s
      [] r.t = "int" -> ToString(r.n)
      [] OTHER -> "None"

(***************************************************************************)
(* executor.py: resolve_input                                              *)
(***************************************************************************)
resolve_input(input_source, user_query, outs) ==
    IF input_source = "user_query" THEN user_query
    ELSE IF StartsWith(input_source, "step:")
    THEN LET parts1 == SplitHead(SplitRest(input_source, ":"), ":")
             step_id_str == SplitHead(parts1, ".")
             step_id == ParseInt(step_id_str)
         IN  IF IsSome(step_id)
             THEN LET prior == DictGet(outs, Unwrap(step_id))
                  IN  IF IsSome(prior) /\ IsSome(Unwrap(prior).output)
                      THEN PyStr(Unwrap(Unwrap(prior).output).result)
                      ELSE user_query
             ELSE user_query
    ELSE user_query

(***************************************************************************)
(* models.py and the handshake of a worker call.                           *)
(***************************************************************************)
KB == "KnowledgeBaseBuilderAgent"
TDA == "task_dependency_agent"

PlanStep(sid, a, it, src) == [step_id |-> sid, agent |-> a, intent |-> it, input_source |-> src]
UsedAgentEntry(n, it, st) == [name |-> n, intent |-> it, status |-> st]
ErrorModel(ty) == [type |-> ty]
OutputModel(r) == [result |-> r]

\* AgentResponse(**resp.json()): the fields of the worker's handshake response
\* are taken as the worker sent them
AgentResponse(body) ==
    [request_id |-> body.request_id, agent_name |-> body.agent_name,
     status |-> body.status, output |-> body.output, error |-> body.error]

\* What the network can give back for one POST to a worker: a transport
\* failure or timeout, a non-200 status, or 200 with a handshake response.
ResultText == [t |-> "str", s |-> "3 tasks saved"]
ResultCount == [t |-> "int", n |-> 3]

ResponseBodies ==
    { [status |-> "success", output |-> Some(OutputModel(ResultText)), error |-> None],
      [status |-> "error", output |-> None, error |-> Some(ErrorModel("worker_error"))],
      [status |-> "error", output |-> Some(OutputModel(ResultCount)),
       error |-> Some(ErrorModel("partial_failure"))],
      [status |-> "success", output |-> None, error |-> None] }

WorkerReplies ==
    { [kind |-> "exception"], [kind |-> "http", status_code |-> 500] }
    \cup { [kind |-> "http", status_code |-> 200, json |-> b] : b \in ResponseBodies }

Configured(agent_meta) == agent_meta.type = "http" /\ agent_meta.endpoint # ""

\* the replies a call to agent_meta can meet: none at all without an endpoint
RepliesFor(agent_meta) ==
    IF Configured(agent_meta) THEN WorkerReplies ELSE { [kind |-> "no_request"] }

(***************************************************************************)
(* executor.py: call_agent_with_trigger, from the POST to the return       *)
(***************************************************************************)
TriggerCallOneErrorKind(request_id, agent_meta, reply) ==
    IF Configured(agent_meta) /\ reply.kind = "http" /\ reply.status_code = 200
    THEN AgentResponse([request_id |-> request_id, agent_name |-> agent_meta.name]
                       @@ reply.json)
    ELSE [request_id |-> request_id, agent_name |-> agent_meta.name,
          status |-> "error", output |-> None,
          error |-> Some(ErrorModel("network_error"))]

call_agent_with_trigger(request_id, agent_meta, reply) ==
    IF Configured(agent_meta)
    THEN IF reply.kind = "http"
         THEN IF reply.status_code # 200
              THEN [request_id |-> request_id, agent_name |-> agent_meta.name,
                    status |-> "error", output |-> None,
                    error |-> Some(ErrorModel("http_error"))]
              ELSE AgentResponse([request_id |-> request_id,
                                  agent_name |-> agent_meta.name] @@ reply.json)
         ELSE [request_id |-> request_id, agent_name |-> agent_meta.name,
               status |-> "error", output |-> None,
               error |-> Some(ErrorModel("network_error"))]
    ELSE [request_id |-> request_id, agent_name |-> agent_meta.name,
          status |-> "error", output |-> None,
          error |-> Some(ErrorModel("config_error"))]

\* agent_caller.py: call_agent maps the reply of its POST to an outcome the
\* same way and never raises
call_agent(request_id, agent_meta, reply) ==
    call_agent_with_trigger(request_id, agent_meta, reply)

TriggerInput == [trigger |-> "database_update"]
TextInput(text) == [text |-> text]

(***************************************************************************)
(* executor.py: execute_plan.  The coroutine runs from one await to the    *)
(* next without interruption, so each action is one such stretch.          *)
(*   pc = "loop"       at the head of `for step in plan.steps`             *)
(*   pc = "await_call" suspended in `await call_agent(...)`                *)
(*   pc = "await_tda"  suspended in `await call_agent_with_trigger(...)`   *)
(*   pc = "done"       returned (step_outputs, used_agents)                *)
(*   pc = "raised"     left by an exception                                *)
(***************************************************************************)
SubRegistry(names) == SelectSeq(load_registry, LAMBDA a : a.name \in names)
Unconfigured(reg, name) ==
    [i \in 1..Len(reg) |-> IF reg[i].name = name THEN [reg[i] EXCEPT !.endpoint = ""]
                                                  ELSE reg[i]]

Registries ==
    { SubRegistry({KB, TDA}),                       \* both workers reachable
      SubRegistry({KB}),                            \* no dependency worker
      Unconfigured(SubRegistry({KB, TDA}), TDA) }   \* dependency worker without endpoint

Queries == { "create task: fix login bug" }
StepIds == {0, 1}
StepTargets == { <<KB, "create_task">>, <<KB, "add_task">>,
                 <<TDA, "task.resolve_dependencies">> }
StepInputs == { "user_query", "step:0.output.result" }
PlanSteps == { PlanStep(sid, t[1], t[2], src) :
                 sid \in StepIds, t \in StepTargets, src \in StepInputs }
Plans == UNION { [1..n -> PlanSteps] : n \in 0..MaxSteps }

TriggerConditionAnyIntent(step, response) ==
    /\ step.agent = KB
    /\ response.status = "success"

\* lines 109-111: the condition of the cascading trigger
TriggerCondition(step, response) ==
    /\ step.agent = KB
    /\ response.status = "success"
    /\ step.intent = "create_task"

NextStepIdByCount(outs) == Len(outs)
NextStepIdNoIncrement(outs) == IF outs # <<>> THEN Max(Keys(outs)) ELSE 0
\* line 121: the id the cascaded outcome is stored under
next_step_id(outs) == IF outs # <<>> THEN Max(Keys(outs)) + 1 ELSE 0

AwaitCallNotAwaited(i) == [pc |-> "loop", idx |-> i + 1]
\* line 102: the coroutine is suspended until the call has its outcome
AwaitCall(i) == [pc |-> "await_call", idx |-> i]
\* lines 115-119: likewise for the cascaded call
AwaitTrigger(i) == [pc |-> "await_tda", idx |-> i]
NextIterationReturns(i) == [pc |-> "done", idx |-> i + 1]
\* line 99: the loop goes on with the next step of the plan
NextIteration(i) == [pc |-> "loop", idx |-> i + 1]

Call(kind, i, agent, intent, input) ==
    [request_id |-> Len(calls) + 1, kind |-> kind, step |-> i, agent |-> agent,
     intent |-> intent, input |-> input, status |-> "pending"]
Pending == calls[Len(calls)]
Answered(response) == [calls EXCEPT ![Len(calls)].status = response.status]

\* the variables execute_plan does not touch
execFrame == <<resolveVars, plannerVars, answerVars, concurrentVars, focusVars, queryVars>>

\* no resolve_input call under way
ResolveIdle ==
    /\ arg_input_source = "user_query"
    /\ arg_user_query = ""
    /\ arg_step_outputs = <<>>
    /\ ret_resolve_input = None

\* no plan_tools_with_llm call under way
PlannerIdle ==
    /\ arg_query = ""
    /\ arg_registry = <<>>
    /\ llm_configured = FALSE
    /\ llm_calls = 0
    /\ llm_reply = None
    /\ planner_raised = FALSE
    /\ ret_plan = None

AnswerIdle ==
    /\ arg_answer_query = ""
    /\ arg_answer_outputs = <<>>
    /\ answer_backend = [kind |-> "unconfigured"]
    /\ answer_llm_calls = 0
    /\ answer_raised = FALSE
    /\ ret_answer = None

\* no concurrent requests under way
RunsIdle == runs = <<>> /\ heap = <<>>
FocusIdle ==
    /\ state = <<>> /\ tasks = <<>> /\ ready = <<>> /\ inbox = <<>>
    /\ shown = {} /\ now = 0 /\ co = <<>>
\* no /api/query request received
QueryIdle == conversation_log = <<>> /\ handling = <<>>

ExecIdle ==
    /\ query = "" /\ plan = <<>> /\ registry = <<>> /\ pc = "idle" /\ idx = 0
    /\ step_outputs = <<>> /\ used_agents = <<>> /\ in_flight = {} /\ calls = <<>>

ExecInit ==
    /\ ResolveIdle
    /\ RunsIdle
    /\ FocusIdle /\ QueryIdle
    /\ PlannerIdle
    /\ AnswerIdle
    /\ query \in Queries
    /\ plan \in Plans
    /\ registry \in Registries
    /\ pc = "loop"
    /\ idx = 1
    /\ step_outputs = <<>>
    /\ used_agents = <<>>
    /\ in_flight = {}
    /\ calls = <<>>

\* line 100: find_agent_by_name raises KeyError, which nothing catches
StepLookupFails ==
    /\ pc = "loop" /\ idx <= Len(plan)
    /\ find_agent_by_name(plan[idx].agent, registry) = 0
    /\ pc' = "raised"
    /\ UNCHANGED <<query, plan, registry, idx, step_outputs, used_agents, in_flight, calls, execFrame>>

\* lines 100-102, up to the await
StepDispatch ==
    /\ pc = "loop" /\ idx <= Len(plan)
    /\ find_agent_by_name(plan[idx].agent, registry) # 0
    /\ LET step == plan[idx]
           agent_meta == registry[find_agent_by_name(step.agent, registry)]
           text == resolve_input(step.input_source, query, step_outputs)
           call == Call("step", idx, agent_meta.name, step.intent, TextInput(text))
       IN  /\ calls' = Append(calls, call)
           /\ in_flight' = in_flight \cup {call.request_id}
           /\ pc' = AwaitCall(idx).pc
           /\ idx' = AwaitCall(idx).idx
    /\ UNCHANGED <<query, plan, registry, step_outputs, used_agents, execFrame>>

RecordedNotLogged(step, agent_meta, response) ==
    /\ step_outputs' = DictSet(step_outputs, step.step_id, response)
    /\ used_agents' = used_agents

\* lines 102-106: the call returns, its outcome is recorded
Recorded(step, agent_meta, response) ==
    /\ step_outputs' = DictSet(step_outputs, step.step_id, response)
    /\ used_agents' = Append(used_agents,
                             UsedAgentEntry(agent_meta.name, step.intent, response.status))

\* lines 102-111 when the trigger condition is false
StepRecord ==
    /\ pc = "await_call"
    /\ LET step == plan[idx]
           agent_meta == registry[find_agent_by_name(step.agent, registry)]
       IN  \E reply \in RepliesFor(agent_meta) :
             LET response == call_agent(Pending.request_id, agent_meta, reply)
             IN  /\ ~TriggerCondition(step, response)
                 /\ Recorded(step, agent_meta, response)
                 /\ calls' = Answered(response)
                 /\ in_flight' = in_flight \ {Pending.request_id}
                 /\ pc' = NextIteration(idx).pc
                 /\ idx' = NextIteration(idx).idx
    /\ UNCHANGED <<query, plan, registry, execFrame>>

\* lines 102-113 and 130-132: the trigger condition holds and the lookup of
\* task_dependency_agent raises KeyError, which the handler swallows
StepRecordTriggerSkipped ==
    /\ pc = "await_call"
    /\ LET step == plan[idx]
           agent_meta == registry[find_agent_by_name(step.agent, registry)]
       IN  \E reply \in RepliesFor(agent_meta) :
             LET response == call_agent(Pending.request_id, agent_meta, reply)
             IN  /\ TriggerCondition(step, response)
                 /\ find_agent_by_name(TDA, registry) = 0
                 /\ Recorded(step, agent_meta, response)
                 /\ calls' = Answered(response)
                 /\ in_flight' = in_flight \ {Pending.request_id}
                 /\ pc' = NextIteration(idx).pc
                 /\ idx' = NextIteration(idx).idx
    /\ UNCHANGED <<query, plan, registry, execFrame>>

\* lines 102-119: the trigger condition holds and the cascaded call starts
StepRecordTriggerDispatch ==
    /\ pc = "await_call"
    /\ LET step == plan[idx]
           agent_meta == registry[find_agent_by_name(step.agent, registry)]
       IN  \E reply \in RepliesFor(agent_meta) :
             LET response == call_agent(Pending.request_id, agent_meta, reply)
                 tda_meta == registry[find_agent_by_name(TDA, registry)]
                 call == [Call("cascade", idx, tda_meta.name, "task.resolve_dependencies",
                               TriggerInput) EXCEPT !.request_id = Len(calls) + 1]
             IN  /\ TriggerCondition(step, response)
                 /\ find_agent_by_name(TDA, registry) # 0
                 /\ Recorded(step, agent_meta, response)
                 /\ calls' = Append(Answered(response), call)
                 /\ in_flight' = (in_flight \ {Pending.request_id}) \cup {call.request_id}
                 /\ pc' = AwaitTrigger(idx).pc
                 /\ idx' = AwaitTrigger(idx).idx
    /\ UNCHANGED <<query, plan, registry, execFrame>>

\* lines 115-129: the cascaded call returns, its outcome is recorded
CascadeRecord ==
    /\ pc = "await_tda"
    /\ LET tda_meta == registry[find_agent_by_name(TDA, registry)]
       IN  \E reply \in RepliesFor(tda_meta) :
             LET tda_response == call_agent_with_trigger(Pending.request_id, tda_meta, reply)
             IN  /\ step_outputs' = DictSet(step_outputs, next_step_id(step_outputs),
                                            tda_response)
                 /\ used_agents' = Append(used_agents,
                        UsedAgentEntry(tda_meta.name, "task.resolve_dependencies",
                                       tda_response.status))
                 /\ calls' = Answered(tda_response)
                 /\ in_flight' = in_flight \ {Pending.request_id}
                 /\ pc' = NextIteration(idx).pc
                 /\ idx' = NextIteration(idx).idx
    /\ UNCHANGED <<query, plan, registry, execFrame>>

\* line 137
ExecReturn ==
    /\ pc = "loop" /\ idx > Len(plan)
    /\ pc' = "done"
    /\ UNCHANGED <<query, plan, registry, idx, step_outputs, used_agents, in_flight, calls, execFrame>>

Next ==
    \/ StepLookupFails
    \/ StepDispatch
    \/ StepRecord
    \/ StepRecordTriggerSkipped
    \/ StepRecordTriggerDispatch
    \/ CascadeRecord
    \/ ExecReturn

Spec == ExecInit /\ [][Next]_vars

(***************************************************************************)
(* Claims about execute_plan, checked under Spec.                          *)
(***************************************************************************)
LastUsed(u) == u[Len(u)]

\* the transition in which the outcome of plan step idx is recorded
StepOutcomeRecorded ==
    pc = "await_call" /\ Len(used_agents') = Len(used_agents) + 1

\* the transition in which the outcome of a cascaded call is recorded
CascadeOutcomeRecorded ==
    pc = "await_tda" /\ Len(used_agents') = Len(used_agents) + 1

\* every plan step before position i was dispatched and its outcome recorded
StepsDoneBefore(i) ==
    \A j \in 1..(i - 1) :
        /\ \E k \in 1..Len(calls) :
              calls[k].kind = "step" /\ calls[k].step = j /\ calls[k].status # "pending"
        /\ HasKey(step_outputs, plan[j].step_id)

\* C1: a plan step whose call ends in an error outcome does not stop the
\* plan: the loop goes on with the next step, no step is skipped, and a run
\* that returns has dispatched every step and recorded an outcome for it.
C1_ErrorOutcomeDoesNotStopPlan ==
    /\ [][ (StepOutcomeRecorded /\ LastUsed(used_agents').status = "error")
              => (pc' = "loop" /\ idx' = idx + 1) ]_vars
    /\ [](pc \in {"loop", "await_call", "await_tda"} => StepsDoneBefore(idx))
    /\ [](pc = "done" => StepsDoneBefore(Len(plan) + 1))

C1_Witness ==
    /\ pc = "done" /\ Len(plan) = 2
    /\ used_agents[1].status = "error"
    /\ calls[Len(calls)].kind = "step" /\ calls[Len(calls)].step = 2
    /\ calls[Len(calls)].status = "success"

\* C2: execute_plan never raises, whatever the plan and the registry.
C2_NeverRaises == pc # "raised"

\* C3: the calls of one plan are dispatched in list order and one at a time:
\* a call starts only when every earlier call has its outcome, a cascaded
\* call directly follows the call of its step, and at most one is in flight.
C3_SequentialDispatch ==
    /\ Cardinality(in_flight) <= 1
    /\ \A k \in 1..Len(calls) :
          /\ k < Len(calls) => calls[k].status # "pending"
          /\ calls[k].status = "pending" <=> calls[k].request_id \in in_flight
          /\ calls[k].kind = "step" =>
                /\ \A l \in 1..(k - 1) : calls[l].step < calls[k].step
                /\ plan[calls[k].step].intent = calls[k].intent
                /\ plan[calls[k].step].agent = calls[k].agent
          /\ calls[k].kind = "cascade" =>
                /\ k > 1
                /\ calls[k - 1].kind = "step" /\ calls[k - 1].step = calls[k].step

C3_Witness ==
    /\ Len(calls) = 3 /\ in_flight = {3}
    /\ calls[2].kind = "cascade" /\ calls[3].kind = "step"

\* the step whose outcome is being awaited or was just recorded
CurrentStep == plan[idx]
StepTriggers ==
    /\ CurrentStep.agent = KB /\ CurrentStep.intent = "create_task"
    /\ LastUsed(used_agents').status = "success"

\* the outcome map after the transition is the map before it plus one entry
\* under max(ids) + 1 that belongs to a call addressed to task_dependency_agent
OneCascadedEntryAdded ==
    /\ Len(step_outputs') = Len(step_outputs) + 1
    /\ SubSeq(step_outputs', 1, Len(step_outputs)) = step_outputs
    /\ step_outputs'[Len(step_outputs')].key = Max(Keys(step_outputs)) + 1
    /\ step_outputs'[Len(step_outputs')].val.agent_name = TDA
    /\ Pending.agent = TDA /\ Pending.input = TriggerInput
    /\ LastUsed(used_agents').name = TDA

\* C4 as stated: after every successful create_task step of
\* KnowledgeBaseBuilderAgent one cascaded call is made and its outcome is
\* added to the map under max(ids) + 1.
C4_CascadedEntryAlways ==
    [][ /\ (StepOutcomeRecorded /\ StepTriggers) => pc' = "await_tda"
        /\ CascadeOutcomeRecorded => (OneCascadedEntryAdded /\ pc' = "loop")
      ]_vars

\* C4 amended: the same, provided task_dependency_agent is in the registry;
\* when it is not, the step is followed by no cascaded call and no entry.
C4_CascadedEntryWhenRegistered ==
    [][ /\ (StepOutcomeRecorded /\ StepTriggers) =>
              IF find_agent_by_name(TDA, registry) # 0
              THEN pc' = "await_tda"
              ELSE pc' = "loop" /\ Len(calls') = Len(calls)
        /\ CascadeOutcomeRecorded => (OneCascadedEntryAdded /\ pc' = "loop")
      ]_vars

C4_Witness ==
    /\ pc = "loop" /\ Len(calls) = 2
    /\ calls[2].kind = "cascade" /\ calls[2].status = "error"
    /\ Len(step_outputs) = 2 /\ step_outputs[1].key = 1 /\ step_outputs[2].key = 2

\* C5: a failed cascade (an error outcome, or task_dependency_agent missing
\* from the registry) leaves the outcome and the used-agent entry of the
\* triggering step as recorded, raises nothing, and the loop goes on with
\* the next step.
C5_CascadeFailureSwallowed ==
    [][ /\ (CascadeOutcomeRecorded /\ LastUsed(used_agents').status = "error") =>
              /\ DictGet(step_outputs', CurrentStep.step_id)
                    = DictGet(step_outputs, CurrentStep.step_id)
              /\ SubSeq(used_agents', 1, Len(used_agents)) = used_agents
              /\ pc' = "loop" /\ idx' = idx + 1
        /\ (StepOutcomeRecorded /\ StepTriggers /\ find_agent_by_name(TDA, registry) = 0) =>
              /\ IsSome(DictGet(step_outputs', CurrentStep.step_id))
              /\ Unwrap(DictGet(step_outputs', CurrentStep.step_id)).status = "success"
              /\ LastUsed(used_agents') = [name |-> KB, intent |-> "create_task", status |-> "success"]
              /\ pc' = "loop" /\ idx' = idx + 1
      ]_vars

C5_Witness ==
    /\ pc = "done" /\ Len(calls) = 3
    /\ calls[2].kind = "cascade" /\ calls[2].status = "error"
    /\ calls[3].kind = "step" /\ calls[3].status # "pending"
    /\ used_agents[1] = [name |-> KB, intent |-> "create_task", status |-> "success"]

\* C8: every outcome in the outcome map has status success exactly when its
\* output is present and its error is absent.
C8_OutcomeInvariant ==
    \A i \in 1..Len(step_outputs) :
        LET r == step_outputs[i].val
        IN  r.status = "success" <=> (IsSome(r.output) /\ ~IsSome(r.error))

\* C9: on return the used-agent list has one entry per call made, in
\* dispatch order, with the agent, intent and outcome status of that call;
\* the entry of a cascaded call directly follows that of its step.
C9_UsedAgentsLogEveryCall ==
    pc = "done" =>
        /\ Len(used_agents) = Len(calls)
        /\ \A k \in 1..Len(calls) :
              /\ used_agents[k] =
                    [name |-> calls[k].agent, intent |-> calls[k].intent,
                     status |-> calls[k].status]
              /\ calls[k].status \in {"success", "error"}
              /\ calls[k].kind = "cascade" =>
                    /\ k > 1 /\ calls[k - 1].kind = "step"
                    /\ calls[k - 1].step = calls[k].step
                    /\ used_agents[k - 1] = [name |-> KB, intent |-> "create_task", status |-> "success"]
                    /\ used_agents[k].name = TDA

C9_Witness ==
    /\ pc = "done" /\ Len(used_agents) = 3
    /\ used_agents[1] = [name |-> KB, intent |-> "create_task", status |-> "success"]
    /\ used_agents[2] = [name |-> TDA, intent |-> "task.resolve_dependencies", status |-> "error"]
    /\ used_agents[3].status = "error"

\* an error outcome of the given kind that carries the id and the agent name
ErrorOutcome(response, kind, request_id, name) ==
    /\ response.status = "error"
    /\ response.error = Some(ErrorModel(kind))
    /\ response.output = None
    /\ response.request_id = request_id
    /\ response.agent_name = name

\* C27: whatever the network gives back to the call that is under way in
\* call_agent_with_trigger, the call returns an outcome: a status other than
\* 200 gives an error outcome of kind http_error, a transport exception one
\* of kind network_error, an agent without endpoint one of kind config_error,
\* each with the request id minted for the call and the agent's name; once
\* the call has returned its outcome is in the map with that id and name, and
\* the only exception that leaves execute_plan is the KeyError of a step's
\* lookup.
C27_ErrorKinds ==
    /\ pc = "await_tda" =>
          LET tda_meta == registry[find_agent_by_name(TDA, registry)]
              request_id == Pending.request_id
          IN  \A reply \in RepliesFor(tda_meta) :
                LET response == call_agent_with_trigger(request_id, tda_meta, reply)
                IN  /\ (reply.kind = "http" /\ reply.status_code # 200) =>
                          ErrorOutcome(response, "http_error", request_id, tda_meta.name)
                    /\ reply.kind = "exception" =>
                          ErrorOutcome(response, "network_error", request_id, tda_meta.name)
                    /\ ~Configured(tda_meta) =>
                          ErrorOutcome(response, "config_error", request_id, tda_meta.name)
    /\ (calls # <<>> /\ Pending.kind = "cascade" /\ Pending.status # "pending") =>
          \E n \in 1..Len(step_outputs) :
              /\ step_outputs[n].val.request_id = Pending.request_id
              /\ step_outputs[n].val.agent_name = Pending.agent
              /\ step_outputs[n].val.status = Pending.status
    /\ pc = "raised" =>
          /\ idx <= Len(plan)
          /\ find_agent_by_name(plan[idx].agent, registry) = 0

\* the cascaded call got a status other than 200 and its outcome is recorded
C27_Witness ==
    /\ pc = "loop" /\ calls # <<>>
    /\ Pending.kind = "cascade" /\ Pending.status = "error"
    /\ \E n \in 1..Len(step_outputs) :
          ErrorOutcome(step_outputs[n].val, "http_error", Pending.request_id, TDA)


\* call k is an answered plan step of KnowledgeBaseBuilderAgent with intent
\* create_task and a success outcome
SuccessfulCreateTask(k) ==
    /\ calls[k].kind = "step"
    /\ calls[k].agent = KB
    /\ calls[k].intent = "create_task"
    /\ calls[k].status = "success"

\* call k is a cascaded call: it directly follows call k - 1, which belongs
\* to the same plan step, and it carries the trigger marker as its input
CascadeOf(k) ==
    /\ calls[k].kind = "cascade"
    /\ calls[k].step = calls[k - 1].step
    /\ calls[k].input = [trigger |-> "database_update"]

\* every cascaded call follows a successful create_task step of
\* KnowledgeBaseBuilderAgent and carries the trigger marker, never a text
OnlyAfterSuccessfulCreateTask ==
    \A k \in 1..Len(calls) :
        calls[k].kind = "cascade" =>
            /\ k > 1
            /\ SuccessfulCreateTask(k - 1)
            /\ CascadeOf(k)
            /\ calls[k].agent = TDA /\ calls[k].intent = "task.resolve_dependencies"

\* C28 as stated: a cascaded call is made if and only if the step just
\* executed is a successful create_task step of KnowledgeBaseBuilderAgent,
\* once per such step, and its input is the trigger marker.
C28_CascadeIff ==
    /\ OnlyAfterSuccessfulCreateTask
    /\ \A k \in 1..Len(calls) :
          SuccessfulCreateTask(k) => (k < Len(calls) /\ CascadeOf(k + 1))

\* C28 amended: the same, provided task_dependency_agent is in the
\* registry; when it is not, no cascaded call is made at all.
C28_CascadeIffRegistered ==
    /\ OnlyAfterSuccessfulCreateTask
    /\ \A k \in 1..Len(calls) :
          SuccessfulCreateTask(k) =>
              IF find_agent_by_name(TDA, registry) # 0
              THEN k < Len(calls) /\ CascadeOf(k + 1)
              ELSE \A m \in 1..Len(calls) : calls[m].kind = "step"

\* a successful create_task step was followed by the cascaded call, and the
\* successful add_task step after it by none
C28_Witness ==
    /\ pc = "done" /\ Len(calls) = 3
    /\ SuccessfulCreateTask(1) /\ CascadeOf(2)
    /\ calls[3].kind = "step" /\ calls[3].agent = KB /\ calls[3].intent = "add_task"
    /\ calls[3].status = "success"


\* the step ids of the plan are pairwise distinct
DistinctPlanIds ==
    \A m \in 1..Len(plan), n \in 1..Len(plan) : m # n => plan[m].step_id # plan[n].step_id

\* C30: for a plan with pairwise distinct step ids, on return the outcome map
\* holds one entry for every call made, so it has as many entries as the
\* used-agent list: no outcome of a plan step replaced a cascaded outcome and
\* no cascaded outcome replaced that of a plan step.
C30_OneOutcomePerCall ==
    (pc = "done" /\ DistinctPlanIds) =>
        /\ Len(step_outputs) = Len(calls)
        /\ Len(step_outputs) = Len(used_agents)
        /\ \A k \in 1..Len(calls) :
              \E n \in 1..Len(step_outputs) :
                 step_outputs[n].val.request_id = calls[k].request_id


(***************************************************************************)
(* resolve_input on its own: SpecResolve draws the arguments and applies   *)
(* the function once.                                                      *)
(***************************************************************************)
Outcome(agent, body) == AgentResponse([request_id |-> 1, agent_name |-> agent] @@ body)
SuccessWith(r) == [status |-> "success", output |-> Some(OutputModel(r)), error |-> None]
ErrorOnly == [status |-> "error", output |-> None, error |-> Some(ErrorModel("worker_error"))]
ErrorWithOutput(r) ==
    [status |-> "error", output |-> Some(OutputModel(r)),
     error |-> Some(ErrorModel("partial_failure"))]
SuccessNoOutput == [status |-> "success", output |-> None, error |-> None]
Entry(k, v) == [key |-> k, val |-> v]

ResolveMaps ==
    { <<>>,
      << Entry(0, Outcome(KB, SuccessWith(ResultText))) >>,
      << Entry(0, Outcome(KB, ErrorOnly)) >>,
      << Entry(0, Outcome(KB, ErrorWithOutput(ResultCount))) >>,
      << Entry(0, Outcome(KB, SuccessNoOutput)) >>,
      << Entry(1, Outcome(KB, SuccessWith(ResultCount))) >>,
      << Entry(0, Outcome(KB, ErrorOnly)), Entry(1, Outcome(TDA, SuccessWith([t |-> "null"]))) >>,
      << Entry(0, Outcome(KB, SuccessWith(ResultText))),
         Entry(10, Outcome(TDA, SuccessWith(ResultCount))) >> }

ResolveSources ==
    { "user_query", "step:0", "step:1", "step:10", "step:5",
      "step:0.output.result", "step:1.output.result", "step:10.output.result",
      "step:", "step:x", "step:one.output.result", "step:.0", "step", "steps:0",
      "", "query", "User_Query", "step:-1", "step: 0", "step:0:1" }

ResolveInit ==
    /\ arg_input_source \in ResolveSources
    /\ arg_user_query \in Queries
    /\ arg_step_outputs \in ResolveMaps
    /\ ret_resolve_input = None
    /\ PlannerIdle
    /\ AnswerIdle
    /\ ExecIdle
    /\ RunsIdle
    /\ FocusIdle /\ QueryIdle

ResolveCall ==
    /\ ret_resolve_input = None
    /\ ret_resolve_input' =
          Some(resolve_input(arg_input_source, arg_user_query, arg_step_outputs))
    /\ UNCHANGED <<arg_input_source, arg_user_query, arg_step_outputs, execVars, plannerVars, concurrentVars, focusVars, queryVars,
                   answerVars>>

SpecResolve == ResolveInit /\ [][ResolveCall]_vars

\* the two reference forms of step N
RefForms(N) == { "step:" \o ToString(N), "step:" \o ToString(N) \o ".output.result" }
RefIds == 0..10
MalformedSources ==
    { "step:", "step:x", "step:one.output.result", "step:.0", "step", "steps:0",
      "", "query", "User_Query" }

\* C6: when a plan step refers to step N and the outcome recorded under N
\* has status error, whatever else that outcome carries, the input handed
\* to the worker is the original query.
C6_ErrorOutcomeResolvesToQuery ==
    pc = "await_call" =>
        \A N \in RefIds :
            ( /\ plan[idx].input_source \in RefForms(N)
              /\ IsSome(DictGet(step_outputs, N))
              /\ Unwrap(DictGet(step_outputs, N)).status = "error" )
            => Pending.input = [text |-> query]

\* C7: resolve_input always returns: the query for "user_query", str(R) for
\* a reference to a step recorded as a success with result R, and the query
\* for a reference to an id missing from the map, for a non-integer or
\* empty id and for any other token.
C7_ResolveInputTotal ==
    IsSome(ret_resolve_input) =>
        /\ arg_input_source = "user_query" => Unwrap(ret_resolve_input) = arg_user_query
        /\ \A N \in RefIds :
              arg_input_source \in RefForms(N) =>
                LET prior == DictGet(arg_step_outputs, N)
                IN  /\ ~IsSome(prior) => Unwrap(ret_resolve_input) = arg_user_query
                    /\ ( /\ IsSome(prior)
                         /\ Unwrap(prior).status = "success"
                         /\ IsSome(Unwrap(prior).output) )
                       => Unwrap(ret_resolve_input)
                             = PyStr(Unwrap(Unwrap(prior).output).result)
        /\ arg_input_source \in MalformedSources
              => Unwrap(ret_resolve_input) = arg_user_query

C7_Witness ==
    /\ arg_input_source = "step:10.output.result"
    /\ HasKey(arg_step_outputs, 10)
    /\ ret_resolve_input = Some("3")

(***************************************************************************)
(* planner.py: the heuristic rules of plan_tools_with_llm                  *)
(***************************************************************************)
\* k in q for two Python strings
Contains(q, k) ==
    \E i \in 1..(Len(q) - Len(k) + 1) : SubSeq(q, i, i + Len(k) - 1) = k

UpperLetters == "ABCDEFGHIJKLMNOPQRSTUVWXYZ"
LowerLetters == "abcdefghijklmnopqrstuvwxyz"
LowerChar(c) ==
    IF IndexOf(UpperLetters, c) # 0
    THEN SubSeq(LowerLetters, IndexOf(UpperLetters, c), IndexOf(UpperLetters, c))
    ELSE c

\* query.lower()
RECURSIVE Lower(_)
Lower(q) ==
    IF q = "" THEN q
    ELSE LowerChar(SubSeq(q, 1, 1)) \o Lower(SubSeq(q, 2, Len(q)))

\* lines 315-374
budget_keywords ==
    { "budget", "budgets", "budgeting", "budgeted", "spending", "spent", "spend", "spends",
      "spender", "expense", "expenses", "expenditure", "expenditures", "expend", "cost",
      "costs", "costing", "costed", "financial", "finance", "finances", "financing",
      "money", "monetary", "funds", "funding", "funded", "allocation", "allocate",
      "allocated", "allocating", "track", "tracking", "tracked", "tracks", "monitor",
      "monitoring", "monitored", "monitors", "overspending", "overspend", "overspent",
      "over budget", "over-budget", "remaining", "remain", "remains", "balance",
      "balances", "left over", "limit", "limits", "limited", "limiting", "budget limit",
      "budget cap", "forecast", "forecasts", "forecasting", "forecasted", "predict",
      "predicts", "prediction", "predictions", "predicting", "predicted", "analyze",
      "analyzes", "analysis", "analyses", "analyzing", "analyzed", "analytics",
      "analytical", "report", "reports", "reporting", "reported", "summary", "summaries",
      "summarize", "summarizing", "summarized", "recommend", "recommends",
      "recommendation", "recommendations", "recommending", "recommended", "suggestion",
      "suggestions", "suggest", "suggests", "suggesting", "suggested", "advice", "advise",
      "advises", "advising", "advised", "anomaly", "anomalies", "anomalous",
      "unusual spending", "unusual expense", "status", "state", "current budget",
      "budget status", "budget state", "check budget", "budget check", "view budget",
      "show budget", "project budget", "project cost", "project costs", "project spending",
      "project expense", "project expenses", "project financial", "projects",
      "project list", "list projects", "all projects", "current projects",
      "projects and budgets", "show projects", "list all projects", "what projects",
      "which projects", "my projects", "list of projects", "all my projects",
      "active projects", "project overview", "projects with budgets", "projects budget",
      "project budgets", "update budget", "update spending", "add expense", "add spending",
      "record expense", "log expense", "log spending", "enter expense", "how much",
      "how much left", "how much remaining", "what's my budget", "what is my budget",
      "budget question", "budget query", "manage budget", "budget management",
      "control spending", "spending control", "budget control", "financial management",
      "expense management" }

\* A rule of the if-chain: the query matches when it holds one of `keywords`
\* and, for a rule with a second list, also one of `and_keywords`.
Rule(kw, steps) == [keywords |-> kw, and_keywords |-> None, steps |-> steps]
RuleBoth(kw, kw2, steps) == [keywords |-> kw, and_keywords |-> Some(kw2), steps |-> steps]
OneStepNumberedOne(a, it) == << PlanStep(1, a, it, "user_query") >>
OneStep(a, it) == << PlanStep(0, a, it, "user_query") >>
AfterDeadline(a, it) ==
    << PlanStep(0, "deadline_guardian_agent", "deadline.monitor", "user_query"),
       PlanStep(1, a, it, "step:0.output.result") >>

\* lines 77-498: the heuristic rules in the order the code tests them
HeuristicRules ==
    <<
      \* line 77
      Rule({ "start focus mode", "turn on focus", "enable focus", "focus mode on",
             "start monitoring", "start focus", "begin monitoring", "track my focus",
             "monitor my activity", "watch my productivity" },
           AfterDeadline("focus_enforcer_agent", "focus.start_monitoring")),
      \* line 99
      Rule({ "focus", "distracted", "distraction", "productivity", "procrastinating",
             "am i focused", "check my focus", "analyze focus", "focus score",
             "how productive", "staying on task", "off task" },
           AfterDeadline("focus_enforcer_agent", "focus.analyze")),
      \* line 122
      Rule({ "stop monitoring", "stop focus", "end monitoring", "stop tracking",
             "turn off focus", "disable focus", "focus mode off" },
           OneStep("focus_enforcer_agent", "focus.stop_monitoring")),
      \* line 138
      Rule({ "focus status", "monitoring status", "is focus on", "focus running" },
           OneStep("focus_enforcer_agent", "focus.check_status")),
      \* line 153
      Rule({ "onboard", "onboarding", "new hire", "new employee", "employee setup",
             "hire someone", "add employee" },
           OneStep("onboarding_buddy_agent", "onboarding.create")),
      \* line 169
      Rule({ "update employee", "change employee", "modify employee", "edit employee",
             "update onboarding" },
           OneStep("onboarding_buddy_agent", "onboarding.update")),
      \* line 185
      Rule({ "employee progress", "onboarding progress", "employee status",
             "check employee", "employee completion", "profile completion",
             "onboarding status" },
           OneStep("onboarding_buddy_agent", "onboarding.check_progress")),
      \* line 202
      Rule({ "create task", "new task", "add task", "task:", "i need to", "implement",
             "fix bug" },
           OneStep("KnowledgeBaseBuilderAgent", "create_task")),
      \* line 215
      Rule({ "summary", "summarize", "condense" },
           OneStep("document_summarizer_agent", "summary.create")),
      \* line 229
      RuleBoth({ "overspending risk", "budget risk", "financial risk", "spending risk",
                 "risks for overspending", "risk of overspending", "overspending risks",
                 "budget risks", "financial risks", "spending risks", "analyze risk",
                 "analyze risks", "risks for", "risk for" },
               { "overspending", "spending", "budget", "financial", "expense", "cost" },
               OneStep("budget_tracker_agent", "budget.question")),
      \* line 249
      Rule({ "deadline", "due date", "risk", "slip" },
           OneStep("deadline_guardian_agent", "deadline.monitor")),
      \* line 262
      Rule({ "follow-up", "followup", "action item", "minutes" },
           OneStep("meeting_followup_agent", "meeting.followup")),
      \* line 275
      Rule({ "dependency", "depends on", "blocked by", "analyze dependencies" },
           OneStep("task_dependency_agent", "task.resolve_dependencies")),
      \* line 288
      Rule({ "email", "inbox", "priority" },
           OneStep("email_priority_agent", "email.prioritize")),
      \* line 301
      Rule({ "progress", "goal", "task status" },
           OneStep("progress_accountability_agent", "progress.track")),
      \* line 377
      Rule(budget_keywords,
           OneStep("budget_tracker_agent", "budget.question")),
      \* line 394
      Rule({ "create goal", "new goal", "add goal" },
           OneStep("productivity_agent", "goal.create")),
      \* line 407
      Rule({ "update goal", "goal progress", "progress update" },
           OneStep("productivity_agent", "goal.update")),
      \* line 420
      Rule({ "add reflection", "journal", "daily log", "reflection", "wrote" },
           OneStep("productivity_agent", "reflection.add")),
      \* line 433
      Rule({ "insight" },
           OneStep("productivity_agent", "productivity.insights")),
      \* line 446
      Rule({ "accountability" },
           OneStep("productivity_agent", "productivity.accountability")),
      \* line 459
      Rule({ "analysis", "analyze", "trend", "pattern" },
           OneStep("productivity_agent", "productivity.analyze")),
      \* line 472
      Rule({ "report" },
           OneStep("productivity_agent", "productivity.report")),
      \* line 485
      Rule({ "review document", "check spelling", "grammar check", "compliance check",
             "proofread", "docx", "document review", "review" },
           OneStep("document_reviewer_agent", "document.review")) >>

RuleMatchesSingleListOnly(rule, lower_q) ==
    /\ ~IsSome(rule.and_keywords)
    /\ \E keyword \in rule.keywords : Contains(lower_q, keyword)

\* the test of one `if` of the chain
RuleMatches(rule, lower_q) ==
    /\ \E keyword \in rule.keywords : Contains(lower_q, keyword)
    /\ IsSome(rule.and_keywords) =>
          \E term \in Unwrap(rule.and_keywords) : Contains(lower_q, term)

LastMatchFrom(lower_q, r) ==
    LET hits == { n \in r..Len(HeuristicRules) : RuleMatches(HeuristicRules[n], lower_q) }
    IN  IF hits = {} THEN 0 ELSE Max(hits)
\* the if-chain from rule r on: the first rule whose test holds returns, 0 when
\* the chain falls through to the LLM path
RECURSIVE FirstMatchFrom(_, _)
FirstMatchFrom(lower_q, r) ==
    IF r > Len(HeuristicRules) THEN 0
    ELSE IF RuleMatches(HeuristicRules[r], lower_q) THEN r
    ELSE FirstMatchFrom(lower_q, r + 1)

(***************************************************************************)
(* planner.py: the LLM path and _validate_steps                            *)
(***************************************************************************)
\* PlanStep(**step): the step is a JSON object with the four fields
WellFormed(step) == step.shape = "object"

RECURSIVE ValidateWithoutIntentCheck(_, _, _)
ValidateWithoutIntentCheck(raw_steps, registry_map, valid_steps) ==
    IF raw_steps = <<>> THEN valid_steps
    ELSE LET step == Head(raw_steps)
         IN  IF ~WellFormed(step) \/ find_agent_by_name(step.agent, registry_map) = 0
             THEN ValidateWithoutIntentCheck(Tail(raw_steps), registry_map, valid_steps)
             ELSE ValidateWithoutIntentCheck(Tail(raw_steps), registry_map,
                    Append(valid_steps,
                           PlanStep(step.step_id, step.agent, step.intent,
                                    step.input_source)))

RECURSIVE ValidateUntilInvalid(_, _, _)
ValidateUntilInvalid(raw_steps, registry_map, valid_steps) ==
    IF raw_steps = <<>> THEN valid_steps
    ELSE LET step == Head(raw_steps)
         IN  IF \/ ~WellFormed(step)
                \/ find_agent_by_name(step.agent, registry_map) = 0
                \/ \A n \in 1..Len(registry_map[find_agent_by_name(step.agent,
                                                     registry_map)].intents) :
                      registry_map[find_agent_by_name(step.agent, registry_map)].intents[n]
                         # step.intent
             THEN valid_steps
             ELSE ValidateUntilInvalid(Tail(raw_steps), registry_map,
                    Append(valid_steps,
                           PlanStep(step.step_id, step.agent, step.intent,
                                    step.input_source)))

\* lines 28-48: the loop of _validate_steps; registry_map.get(name) is the
\* catalog entry of that name, agent names being unique in a catalog
RECURSIVE validate_from(_, _, _)
validate_from(raw_steps, registry_map, valid_steps) ==
    IF raw_steps = <<>> THEN valid_steps
    ELSE LET step == Head(raw_steps)
             rest == Tail(raw_steps)
         IN  IF ~WellFormed(step) THEN validate_from(rest, registry_map, valid_steps)
             ELSE IF find_agent_by_name(step.agent, registry_map) = 0
             THEN validate_from(rest, registry_map, valid_steps)
             ELSE IF \A n \in 1..Len(registry_map[find_agent_by_name(step.agent,
                                                   registry_map)].intents) :
                        registry_map[find_agent_by_name(step.agent, registry_map)].intents[n]
                           # step.intent
             THEN validate_from(rest, registry_map, valid_steps)
             ELSE validate_from(rest, registry_map,
                    Append(valid_steps,
                           PlanStep(step.step_id, step.agent, step.intent,
                                    step.input_source)))

\* lines 23-48
validate_steps(raw_steps, reg) == validate_from(raw_steps, reg, <<>>)

\* an element of the steps list of a reply: a JSON object with the four
\* fields of a PlanStep, an object that lacks some of them, or no object
RawStep(sid, a, it, src) ==
    [shape |-> "object", step_id |-> sid, agent |-> a, intent |-> it, input_source |-> src]
RawSteps ==
    { RawStep(0, "email_priority_agent", "email.priority.classify", "user_query"),
      RawStep(0, "deadline_guardian_agent", "deadline.monitor", "user_query"),
      RawStep(1, "weather_agent", "weather.lookup", "user_query"),
      RawStep(1, "email_priority_agent", "deadline.monitor", "step:0.output.result"),
      [shape |-> "partial", agent |-> "email_priority_agent"],
      [shape |-> "string"] }

\* what the chat completion call can give back: an exception, a response with
\* no choice, a choice without content, or a content that json.loads rejects
\* or parses to some JSON value
LLMReplies ==
    { [kind |-> "exception"], [kind |-> "no_choices"], [kind |-> "null_content"],
      [kind |-> "content", json |-> "invalid"],
      [kind |-> "content", json |-> "array"],
      [kind |-> "content", json |-> "null"],
      [kind |-> "content", json |-> "string"],
      [kind |-> "content", json |-> "object", steps |-> None],
      [kind |-> "content", json |-> "object", steps |-> Some([t |-> "null"])],
      [kind |-> "content", json |-> "object", steps |-> Some([t |-> "number"])],
      [kind |-> "content", json |-> "object", steps |-> Some([t |-> "string"])],
      [kind |-> "content", json |-> "object", steps |-> Some([t |-> "object"])] }
    \cup { [kind |-> "content", json |-> "object",
            steps |-> Some([t |-> "array", items |-> items])] :
             items \in UNION { [1..n -> RawSteps] : n \in 0..MaxRawSteps } }

\* the outcome of a stretch of code: an exception, or the steps it computed
Raises == [exc |-> TRUE, steps |-> <<>>]
Returns(steps) == [exc |-> FALSE, steps |-> steps]

\* lines 546-547: plan_json.get("steps", []) and the loop of _validate_steps
\* over it.  A missing key gives []; None or a number cannot be iterated; a
\* string or an object is iterated as strings, none of which is a mapping.
validate_raw(plan_json, reg) ==
    IF ~IsSome(plan_json.steps) THEN Returns(validate_steps(<<>>, reg))
    ELSE IF Unwrap(plan_json.steps).t \in {"null", "number"} THEN Raises
    ELSE IF Unwrap(plan_json.steps).t \in {"string", "object"}
    THEN Returns(validate_steps(<<[shape |-> "string"]>>, reg))
    ELSE Returns(validate_steps(Unwrap(plan_json.steps).items, reg))

\* lines 530-548 without the except clauses: the content of the first choice
\* is stripped, parsed, asked for its steps, and the steps are validated
llm_steps(reply, reg) ==
    IF reply.kind \in {"exception", "null_content"} THEN Raises
    ELSE IF reply.kind = "no_choices" THEN Raises
    ELSE IF reply.json # "object" THEN Raises
    ELSE validate_raw(reply, reg)

Uncaught(outcome) == [raised |-> outcome.exc, steps |-> outcome.steps]
\* lines 542-544 and 549-551: except Exception: return Plan(steps=[])
Caught(outcome) ==
    IF outcome.exc THEN [raised |-> FALSE, steps |-> <<>>]
    ELSE [raised |-> FALSE, steps |-> outcome.steps]

\* lines 530-551: from the reply of the model to the returned steps
plan_from_reply(reply, reg) == Caught(llm_steps(reply, reg))

\* the catalog, and the catalog without some of its agents
WithoutAgents(names) == SelectSeq(load_registry, LAMBDA a : a.name \notin names)
PlannerRegistries ==
    { load_registry, WithoutAgents({"deadline_guardian_agent", "task_dependency_agent"}) }

\* the phrases queries are made of, and a query for every choice of at most
\* MaxPhrases of them, joined by blanks in the order of the list
PhraseList ==
    << "Start Focus Mode", "monitoring status", "budget risk",
       "create task: fix login bug", "Summarize", "create goal",
       "what's the weather today", "email report", "review",
       "I need to implement search", "risks for cost overrun" >>
Phrases == { PhraseList[i] : i \in DOMAIN PhraseList }

RECURSIVE Join(_)
Join(ps) == IF Len(ps) = 0 THEN ""
            ELSE IF Len(ps) = 1 THEN ps[1]
            ELSE ps[1] \o " " \o Join(Tail(ps))

RECURSIVE Picked(_, _)
Picked(i, chosen) ==
    IF i > Len(PhraseList) THEN <<>>
    ELSE (IF i \in chosen THEN <<PhraseList[i]>> ELSE <<>>) \o Picked(i + 1, chosen)

PlannerQueries ==
    { Join(Picked(1, chosen)) :
        chosen \in { c \in SUBSET DOMAIN PhraseList : Cardinality(c) <= MaxPhrases } }

PlannerInit ==
    /\ arg_query \in PlannerQueries
    /\ arg_registry \in PlannerRegistries
    /\ llm_configured \in BOOLEAN
    /\ llm_calls = 0
    /\ llm_reply = None
    /\ planner_raised = FALSE
    /\ ret_plan = None
    /\ ResolveIdle
    /\ AnswerIdle
    /\ ExecIdle
    /\ RunsIdle
    /\ FocusIdle /\ QueryIdle

plannerFrame == <<execVars, resolveVars, answerVars, concurrentVars, focusVars, queryVars>>

PlanByHeuristicPrefersLLM ==
    /\ ret_plan = None
    /\ FirstMatchFrom(Lower(arg_query), 1) # 0
    /\ IF llm_configured
       THEN /\ llm_calls' = llm_calls + 1
            /\ ret_plan' = Some(<<>>)
       ELSE /\ llm_calls' = llm_calls
            /\ ret_plan' = Some(HeuristicRules[FirstMatchFrom(Lower(arg_query), 1)].steps)
    /\ UNCHANGED <<arg_query, arg_registry, llm_configured, llm_reply, planner_raised,
                   plannerFrame>>

\* lines 75-498: a heuristic rule matches and its plan is returned
PlanByHeuristic ==
    /\ ret_plan = None
    /\ LET r == FirstMatchFrom(Lower(arg_query), 1)
       IN  /\ r # 0
           /\ ret_plan' = Some(HeuristicRules[r].steps)
    /\ UNCHANGED <<arg_query, arg_registry, llm_configured, llm_calls, llm_reply,
                   planner_raised, plannerFrame>>

PlanOutOfScopeFallsBackToSummarizer ==
    /\ ret_plan = None
    /\ FirstMatchFrom(Lower(arg_query), 1) = 0
    /\ ~llm_configured
    /\ ret_plan' = Some(<< PlanStep(0, "document_summarizer_agent", "summary.create",
                                    "user_query") >>)
    /\ UNCHANGED <<arg_query, arg_registry, llm_configured, llm_calls, llm_reply,
                   planner_raised, plannerFrame>>

\* lines 501-504: no rule matches and there is no client
PlanOutOfScope ==
    /\ ret_plan = None
    /\ FirstMatchFrom(Lower(arg_query), 1) = 0
    /\ ~llm_configured
    /\ ret_plan' = Some(<<>>)
    /\ UNCHANGED <<arg_query, arg_registry, llm_configured, llm_calls, llm_reply,
                   planner_raised, plannerFrame>>

\* lines 501-551: no rule matches and the model is asked
PlanByLLM ==
    /\ ret_plan = None /\ ~planner_raised
    /\ FirstMatchFrom(Lower(arg_query), 1) = 0
    /\ llm_configured
    /\ \E reply \in LLMReplies :
          LET result == plan_from_reply(reply, arg_registry)
          IN  /\ llm_calls' = llm_calls + 1
              /\ llm_reply' = Some(reply)
              /\ planner_raised' = result.raised
              /\ ret_plan' = IF result.raised THEN None ELSE Some(result.steps)
    /\ UNCHANGED <<arg_query, arg_registry, llm_configured, plannerFrame>>

PlannerNext == PlanByHeuristic \/ PlanOutOfScope \/ PlanByLLM

SpecPlanner == PlannerInit /\ [][PlannerNext]_vars

\* the rules whose test the query passes
MatchingRules(q) ==
    { r \in 1..Len(HeuristicRules) : RuleMatches(HeuristicRules[r], Lower(q)) }
Min(S) == CHOOSE m \in S : \A n \in S : m <= n

\* the shortest queries that pass the test of rule r: one of its keywords,
\* followed by a term of its second list when it has one
Probes(r) ==
    LET rule == HeuristicRules[r]
    IN  rule.keywords
        \cup (IF IsSome(rule.and_keywords)
              THEN { k \o " " \o t : k \in rule.keywords, t \in Unwrap(rule.and_keywords) }
              ELSE {})

\* the rules that are the first match of some query.  The tests are
\* substring tests without negation, so a query that passes the test of r
\* passes every test that a keyword of r it contains passes: r is the first
\* match of some query exactly when it is the first match of a probe.
ReachableRules ==
    { r \in 1..Len(HeuristicRules) :
        \E q \in Probes(r) : FirstMatchFrom(Lower(q), 1) = r }

\* C25: every rule of the table is reachable: whenever a query contains the
\* trigger of a rule, that rule is the first match of some query, i.e. its
\* triggers are not all matched by rules placed earlier in the table.
C25_EveryRuleReachable ==
    IsSome(ret_plan) => MatchingRules(arg_query) \subseteq ReachableRules

\* C10: when a query matches one or more rules, the plan returned is that of
\* the earliest matching rule in table order and the LLM is not called.
C10_FirstMatchWins ==
    (IsSome(ret_plan) /\ MatchingRules(arg_query) # {}) =>
        /\ Unwrap(ret_plan) = HeuristicRules[Min(MatchingRules(arg_query))].steps
        /\ llm_calls = 0

C10_Witness ==
    /\ IsSome(ret_plan) /\ llm_configured
    /\ arg_query = "budget risk email report"
    /\ Cardinality(MatchingRules(arg_query)) >= 4
    /\ Unwrap(ret_plan) = << [step_id |-> 0, agent |-> "budget_tracker_agent",
                              intent |-> "budget.question", input_source |-> "user_query"] >>

\* C11 as stated: for every rule whose trigger the lowercased query contains,
\* the returned plan is that rule's fixed step sequence.
C11_EveryTriggeredRulePlan ==
    IsSome(ret_plan) =>
        LET T == MatchingRules(arg_query)
        IN  \A r \in T : Unwrap(ret_plan) = HeuristicRules[r].steps

\* C11 amended: a query that contains a trigger of some rule gets the fixed
\* step sequence of the first rule in table order whose trigger it contains,
\* with the LLM backend configured as well as without it, and the sequence is
\* returned without asking the LLM.
C11_FirstTriggeredRulePlan ==
    IsSome(ret_plan) =>
        LET T == MatchingRules(arg_query)
        IN  \A r \in T :
                (\A e \in T : r <= e) =>
                    /\ Unwrap(ret_plan) = HeuristicRules[r].steps
                    /\ Len(Unwrap(ret_plan)) \in {1, 2}
                    /\ llm_calls = 0

C11_Witness ==
    /\ IsSome(ret_plan) /\ llm_configured
    /\ arg_query = "create goal"
    /\ MatchingRules(arg_query) = {15, 17}
    /\ Unwrap(ret_plan) = HeuristicRules[15].steps
    /\ Unwrap(ret_plan) # HeuristicRules[17].steps

(***************************************************************************)
(* Claims about the LLM path of the planner, checked under SpecPlanner.    *)
(***************************************************************************)
\* the (agent, intent) pair of a step is in the catalog
PairInRegistry(step, reg) ==
    \E n \in 1..Len(reg) :
        /\ reg[n].name = step.agent
        /\ \E k \in 1..Len(reg[n].intents) : reg[n].intents[k] = step.intent

AskedLLM == IsSome(llm_reply)
\* the reply is a JSON object whose steps field is a list
HasStepsList(reply) ==
    /\ reply.kind = "content" /\ reply.json = "object"
    /\ IsSome(reply.steps) /\ Unwrap(reply.steps).t = "array"

\* line 202: the triggers of the task-creation rule, and the rule's place
TaskTriggers ==
    { "create task", "new task", "add task", "task:", "i need to", "implement", "fix bug" }
TaskRule ==
    CHOOSE r \in 1..Len(HeuristicRules) : HeuristicRules[r].keywords = TaskTriggers

\* C26: a query that contains a task-creation trigger and no trigger of a
\* rule placed before the task-creation rule gets exactly the one-step plan
\* [step_id 0, KnowledgeBaseBuilderAgent, create_task, user_query], with or
\* without an LLM backend.
C26_TaskCreationPlan ==
    ( /\ IsSome(ret_plan)
      /\ \E k \in TaskTriggers : Contains(Lower(arg_query), k)
      /\ \A e \in MatchingRules(arg_query) : e >= TaskRule ) =>
        ret_plan = Some(<< [step_id |-> 0, agent |-> "KnowledgeBaseBuilderAgent",
                            intent |-> "create_task", input_source |-> "user_query"] >>)

C26_Witness ==
    /\ arg_query = "create task: fix login bug"
    /\ llm_configured
    /\ MatchingRules(arg_query) = {TaskRule}
    /\ ret_plan = Some(<< [step_id |-> 0, agent |-> "KnowledgeBaseBuilderAgent",
                           intent |-> "create_task", input_source |-> "user_query"] >>)

\* lines 229-236: the budget-risk phrases and the budget-domain terms
BudgetRiskPhrases ==
    { "overspending risk", "budget risk", "financial risk", "spending risk",
      "risks for overspending", "risk of overspending", "overspending risks",
      "budget risks", "financial risks", "spending risks", "analyze risk",
      "analyze risks", "risks for", "risk for" }
BudgetTerms == { "overspending", "spending", "budget", "financial", "expense", "cost" }
BudgetRiskRule ==
    CHOOSE r \in 1..Len(HeuristicRules) : HeuristicRules[r].keywords = BudgetRiskPhrases

\* C29: a query that contains a budget-risk phrase and a budget-domain term
\* and no trigger of a rule placed before the budget-risk rule contains the
\* deadline trigger "risk" and is still planned as the single step
\* budget_tracker_agent / budget.question; no step goes to
\* deadline_guardian_agent.
C29_BudgetRiskNotDeadline ==
    ( /\ IsSome(ret_plan)
      /\ \E p \in BudgetRiskPhrases : Contains(Lower(arg_query), p)
      /\ \E t \in BudgetTerms : Contains(Lower(arg_query), t)
      /\ \A e \in MatchingRules(arg_query) : e >= BudgetRiskRule ) =>
        /\ Contains(Lower(arg_query), "risk")
        /\ ret_plan = Some(<< [step_id |-> 0, agent |-> "budget_tracker_agent",
                               intent |-> "budget.question",
                               input_source |-> "user_query"] >>)
        /\ \A n \in 1..Len(Unwrap(ret_plan)) :
              Unwrap(ret_plan)[n].agent # "deadline_guardian_agent"

C29_Witness ==
    /\ arg_query = "risks for cost overrun"
    /\ BudgetRiskRule + 1 \in MatchingRules(arg_query)
    /\ "deadline_guardian_agent" =
          HeuristicRules[BudgetRiskRule + 1].steps[1].agent
    /\ ret_plan = Some(<< [step_id |-> 0, agent |-> "budget_tracker_agent",
                           intent |-> "budget.question",
                           input_source |-> "user_query"] >>)

\* C12: whatever the LLM replied, each step of the plan returned by the LLM
\* path names an agent of the registry given to the planner and an intent
\* among that agent's intents.
C12_LLMPlanWithinRegistry ==
    (AskedLLM /\ IsSome(ret_plan)) =>
        \A n \in 1..Len(Unwrap(ret_plan)) : PairInRegistry(Unwrap(ret_plan)[n], arg_registry)

C12_Witness ==
    /\ AskedLLM /\ HasStepsList(Unwrap(llm_reply))
    /\ arg_registry = WithoutAgents({"deadline_guardian_agent", "task_dependency_agent"})
    /\ Unwrap(Unwrap(llm_reply).steps).items =
          << RawStep(1, "email_priority_agent", "deadline.monitor", "step:0.output.result"),
             RawStep(0, "email_priority_agent", "email.priority.classify", "user_query") >>
    /\ ret_plan = Some(<< PlanStep(0, "email_priority_agent", "email.priority.classify",
                                   "user_query") >>)

\* the raw steps that are well-formed and whose pair is in the catalog, in
\* their order, as plan steps
ValidSubsequence(raw_steps, reg) ==
    LET kept == SelectSeq(raw_steps,
                          LAMBDA st : WellFormed(st) /\ PairInRegistry(st, reg))
    IN  [ n \in 1..Len(kept) |->
            PlanStep(kept[n].step_id, kept[n].agent, kept[n].intent, kept[n].input_source) ]

\* C13: the steps _validate_steps returns are exactly the raw steps that are
\* well-formed and have their (agent, intent) pair in the registry, in the
\* order they had; an invalid step removes nothing but itself.
C13_ValidateStepsExactSubsequence ==
    (AskedLLM /\ HasStepsList(Unwrap(llm_reply))) =>
        ret_plan = Some(ValidSubsequence(Unwrap(Unwrap(llm_reply).steps).items, arg_registry))

C13_Witness ==
    /\ AskedLLM /\ HasStepsList(Unwrap(llm_reply))
    /\ arg_registry = load_registry
    /\ Unwrap(Unwrap(llm_reply).steps).items =
          << RawStep(1, "weather_agent", "weather.lookup", "user_query"),
             RawStep(0, "deadline_guardian_agent", "deadline.monitor", "user_query") >>
    /\ ret_plan = Some(<< PlanStep(0, "deadline_guardian_agent", "deadline.monitor",
                                   "user_query") >>)

\* C14: plan_tools_with_llm never raises; when the model call fails, gives
\* no choice, or gives a content that is not a JSON object with a steps
\* list, the plan returned is empty, and otherwise it holds only steps that
\* passed validation.
C14_PlannerNeverRaises ==
    /\ ~planner_raised
    /\ AskedLLM =>
          /\ IsSome(ret_plan)
          /\ IF HasStepsList(Unwrap(llm_reply))
             THEN \A n \in 1..Len(Unwrap(ret_plan)) :
                     \E k \in 1..Len(Unwrap(Unwrap(llm_reply).steps).items) :
                        LET raw == Unwrap(Unwrap(llm_reply).steps).items[k]
                        IN  /\ WellFormed(raw)
                            /\ PairInRegistry(raw, arg_registry)
                            /\ raw.agent = Unwrap(ret_plan)[n].agent
                            /\ raw.intent = Unwrap(ret_plan)[n].intent
             ELSE Unwrap(ret_plan) = <<>>

C14_Witness ==
    /\ llm_reply = Some([kind |-> "content", json |-> "object",
                         steps |-> Some([t |-> "null"])])
    /\ ret_plan = Some(<<>>)
    /\ ~planner_raised

\* C16: with the catalog of load_registry, each step of a returned plan,
\* from a heuristic rule or from the LLM, names an agent of the catalog and
\* an intent among that agent's intents.
C16_PlanWithinCatalog ==
    (IsSome(ret_plan) /\ arg_registry = load_registry) =>
        \A n \in 1..Len(Unwrap(ret_plan)) : PairInRegistry(Unwrap(ret_plan)[n], load_registry)

\* C17: the step ids of a returned plan are pairwise distinct.
C17_DistinctStepIds ==
    IsSome(ret_plan) =>
        \A m, n \in 1..Len(Unwrap(ret_plan)) :
            m # n => Unwrap(ret_plan)[m].step_id # Unwrap(ret_plan)[n].step_id

(***************************************************************************)
(* answer.py: compose_final_answer and format_review_as_markdown.          *)
(* A JSON value is a record tagged with its type; a float is kept in       *)
(* thousandths.  The arrow and the coloured circles of the source strings, *)
(* which are not ASCII, are written "->", "(red)", "(yellow)", "(green)".  *)
(***************************************************************************)
OutOfScopeText == "This information is not in my scope."
TotalFailureText ==
    "I could not complete your request because every tool failed. Please try again."
ClientErrorPrefix == "Based on the tools, here is what I found: "
REVIEWER == "document_reviewer_agent"

\* models.py: AgentResponse.is_success()
is_success(r) == r.status = "success"

JNull == [t |-> "null"]
JStr(text) == [t |-> "str", s |-> text]
JInt(i) == [t |-> "int", n |-> i]
JFloat(thousandths) == [t |-> "float", permille |-> thousandths]
JList(items) == [t |-> "list", items |-> items]
JObject(fields) == [t |-> "object", fields |-> fields]

\* d.get(k, default) of a dict
GetOr(fields, k, default) == IF k \in DOMAIN fields THEN fields[k] ELSE default

\* bool(v)
Truthy(v) ==
    CASE v.t = "null" -> FALSE
      [] v.t = "str" -> v.s # ""
      [] v.t = "int" -> v.n # 0
      [] v.t = "float" -> v.permille # 0
      [] v.t = "list" -> v.items # <<>>
      [] OTHER -> DOMAIN v.fields # {}

\* the outcome of a stretch of code that builds lines of text: the name of
\* the exception that ended it, or "" and the lines
Fails(exception) == [exc |-> exception, lines |-> <<>>]
Lines(ls) == [exc |-> "", lines |-> ls]
Then(first, second) ==
    IF first.exc # "" THEN first
    ELSE IF second.exc # "" THEN second
    ELSE Lines(first.lines \o second.lines)

\* f"{score:.1%}"
FormatPercent(v) ==
    CASE v.t = "float" ->
            Lines(<<ToString(v.permille \div 10) \o "." \o ToString(v.permille % 10) \o "%">>)
      [] v.t = "int" -> Lines(<<ToString(v.n * 100) \o ".0%">>)
      [] v.t = "str" -> Fails("ValueError")
      [] OTHER -> Fails("TypeError")

\* len(v)
PyLen(v) ==
    CASE v.t = "list" -> Some(Len(v.items))
      [] v.t = "str" -> Some(Len(v.s))
      [] v.t = "object" -> Some(Cardinality(DOMAIN v.fields))
      [] OTHER -> None

\* the elements a for loop over v visits; the keys of a dict and the
\* characters of a string are strings
PyIter(v) ==
    CASE v.t = "list" -> v.items
      [] v.t = "str" -> [i \in 1..Len(v.s) |-> JStr(SubSeq(v.s, i, i))]
      [] OTHER -> [i \in 1..Cardinality(DOMAIN v.fields) |-> JStr("key")]

UpperChar(c) ==
    IF IndexOf(LowerLetters, c) # 0
    THEN SubSeq(UpperLetters, IndexOf(LowerLetters, c), IndexOf(LowerLetters, c))
    ELSE c
RECURSIVE Upper(_)
Upper(text) ==
    IF text = "" THEN text
    ELSE UpperChar(SubSeq(text, 1, 1)) \o Upper(SubSeq(text, 2, Len(text)))

\* lines 104-108: one spelling error
SpellingEntry(err) ==
    IF err.t # "object" THEN Fails("AttributeError")
    ELSE Lines(
           << "- **" \o PyStr(GetOr(err.fields, "error", JStr("N/A"))) \o "** -> "
                \o PyStr(GetOr(err.fields, "suggestion", JStr("N/A"))) >>
           \o (IF Truthy(GetOr(err.fields, "location", JNull))
               THEN << "  - *Location: " \o PyStr(err.fields["location"]) \o "*" >>
               ELSE <<>>)
           \o << "" >>)

\* lines 114-120: one grammar error
GrammarEntry(err) ==
    IF err.t # "object" THEN Fails("AttributeError")
    ELSE Lines(
           << "- **" \o PyStr(GetOr(err.fields, "error", JStr("N/A"))) \o "** -> "
                \o PyStr(GetOr(err.fields, "suggestion", JStr("N/A"))) >>
           \o (IF Truthy(GetOr(err.fields, "type", JNull))
               THEN << "  - *Type: " \o PyStr(err.fields["type"]) \o "*" >>
               ELSE <<>>)
           \o (IF Truthy(GetOr(err.fields, "location", JNull))
               THEN << "  - *Location: " \o PyStr(err.fields["location"]) \o "*" >>
               ELSE <<>>)
           \o << "" >>)

\* lines 126-132: one compliance issue
ComplianceEntry(issue) ==
    IF issue.t # "object" THEN Fails("AttributeError")
    ELSE LET severity == GetOr(issue.fields, "severity", JStr("unknown"))
             severity_emoji == IF severity = JStr("high") THEN "(red)"
                               ELSE IF severity = JStr("medium") THEN "(yellow)"
                               ELSE "(green)"
         IN  IF severity.t # "str" THEN Fails("AttributeError")
             ELSE Lines(
                    << "- " \o severity_emoji \o " **" \o Upper(severity.s) \o "**: "
                         \o PyStr(GetOr(issue.fields, "issue", JStr("N/A"))) >>
                    \o (IF Truthy(GetOr(issue.fields, "suggestion", JNull))
                        THEN << "  - *Suggestion: " \o PyStr(issue.fields["suggestion"])
                                  \o "*" >>
                        ELSE <<>>)
                    \o << "" >>)

RECURSIVE Entries(_, _)
Entries(items, kind) ==
    IF items = <<>> THEN Lines(<<>>)
    ELSE Then(CASE kind = "Spelling Errors" -> SpellingEntry(Head(items))
                [] kind = "Grammar Errors" -> GrammarEntry(Head(items))
                [] OTHER -> ComplianceEntry(Head(items)),
              Entries(Tail(items), kind))

\* lines 101-108, 111-120, 123-132: one section of the review
Section(found, kind) ==
    IF ~Truthy(found) THEN Lines(<<>>)
    ELSE IF ~IsSome(PyLen(found)) THEN Fails("TypeError")
    ELSE Then(Lines(<< "\n### " \o kind \o " (" \o ToString(Unwrap(PyLen(found)))
                         \o ")\n" >>),
              Entries(PyIter(found), kind))

RECURSIVE JoinWith(_, _)
JoinWith(sep, texts) ==
    IF texts = <<>> THEN ""
    ELSE IF Len(texts) = 1 THEN texts[1]
    ELSE texts[1] \o sep \o JoinWith(sep, Tail(texts))

\* lines 88-134: the exception that ends the rendering, or the markdown
format_review_as_markdown(review_data) ==
    IF review_data.t # "object" THEN Fails("AttributeError")
    ELSE LET score == GetOr(review_data.fields, "overall_score", JFloat(0))
             summary == GetOr(review_data.fields, "summary", JStr(""))
             percent == FormatPercent(score)
             md == Then(Then(Then(Then(Then(
                     Lines(<< "## Document Review Summary\n" >>),
                     IF percent.exc # "" THEN percent
                     ELSE Lines(<< "**Overall Score:** " \o percent.lines[1] \o "\n" >>)),
                     IF Truthy(summary) THEN Lines(<< PyStr(summary) \o "\n" >>)
                     ELSE Lines(<<>>)),
                     Section(GetOr(review_data.fields, "spelling_errors", JList(<<>>)),
                             "Spelling Errors")),
                     Section(GetOr(review_data.fields, "grammar_errors", JList(<<>>)),
                             "Grammar Errors")),
                     Section(GetOr(review_data.fields, "compliance_issues", JList(<<>>)),
                             "Compliance Issues"))
         IN  IF md.exc # "" THEN md ELSE Lines(<< JoinWith("\n", md.lines) >>)

\* the JSON documents among the texts of the model, with what json.loads
\* makes of them
JsonDocuments ==
    ( "{\"overall_score\": 0.875, \"summary\": \"Clear.\", \"spelling_errors\": [{\"error\": \"teh\", \"suggestion\": \"the\", \"location\": \"p1\"}]}"
        :> JObject([overall_score |-> JFloat(875), summary |-> JStr("Clear."),
                    spelling_errors |->
                       JList(<< JObject([error |-> JStr("teh"), suggestion |-> JStr("the"),
                                         location |-> JStr("p1")]) >>)]) )
    @@ ( "{\"overall_score\": 1, \"grammar_errors\": [{\"error\": \"is\", \"type\": \"agreement\"}], \"compliance_issues\": [{\"severity\": \"high\", \"issue\": \"No disclaimer.\", \"suggestion\": \"Add one.\"}]}"
        :> JObject([overall_score |-> JInt(1),
                    grammar_errors |->
                       JList(<< JObject([error |-> JStr("is"), type |-> JStr("agreement")]) >>),
                    compliance_issues |->
                       JList(<< JObject([severity |-> JStr("high"),
                                         issue |-> JStr("No disclaimer."),
                                         suggestion |-> JStr("Add one.")]) >>)]) )
    @@ ( "{\"overall_score\": \"high\"}" :> JObject([overall_score |-> JStr("high")]) )
    @@ ( "{\"compliance_issues\": [{\"severity\": null, \"issue\": \"x\"}]}"
        :> JObject([compliance_issues |->
                       JList(<< JObject([severity |-> JNull, issue |-> JStr("x")]) >>)]) )
    @@ ( "[]" :> JList(<<>>) )

\* json.loads(text): the value, or JSONDecodeError
json_loads(text) ==
    IF text \in DOMAIN JsonDocuments THEN [exc |-> "", value |-> JsonDocuments[text]]
    ELSE IF AllDigits(text) THEN [exc |-> "", value |-> JInt(DigitsValue(text, 0))]
    ELSE [exc |-> "JSONDecodeError", value |-> JNull]

Answer(text, requests) == [raised |-> FALSE, text |-> text, llm_calls |-> requests]
AnswerRaises == [raised |-> TRUE, text |-> "", llm_calls |-> 0]

\* step_outputs.values()
Values(outs) == [n \in 1..Len(outs) |-> outs[n].val]

\* line 33: the stitched results of the successful outcomes that have an output
stitched(successful) ==
    LET with_output == SelectSeq(successful, LAMBDA r : IsSome(r.output))
    IN  JoinWith(" | ", [n \in 1..Len(with_output) |->
                            PyStr(Unwrap(with_output[n].output).result)])

\* lines 36-43: the loop over the successful outcomes that looks for a
\* document review: it returns the markdown, goes on after a JSONDecodeError
\* or an AttributeError, and lets any other exception through
RECURSIVE review_from(_)
review_from(successful) ==
    IF successful = <<>> THEN [kind |-> "none"]
    ELSE IF Head(successful).agent_name = REVIEWER /\ IsSome(Head(successful).output)
    THEN LET parsed == json_loads(PyStr(Unwrap(Head(successful).output).result))
             rendered == IF parsed.exc # "" THEN Fails(parsed.exc)
                         ELSE format_review_as_markdown(parsed.value)
         IN  IF rendered.exc = "" THEN [kind |-> "return", text |-> rendered.lines[1]]
             ELSE IF rendered.exc \in {"JSONDecodeError", "AttributeError"}
             THEN review_from(Tail(successful))
             ELSE [kind |-> "raise"]
    ELSE review_from(Tail(successful))

\* how the OpenRouter backend can behave: no key or no library, a client
\* that cannot be built, a failing request, a response without choices, a
\* choice without content, and a content
AnswerBackends ==
    { [kind |-> "unconfigured"], [kind |-> "client_error"], [kind |-> "call_error"],
      [kind |-> "no_choices"],
      [kind |-> "choice", content |-> JNull],
      [kind |-> "choice", content |-> JStr("  ")],
      [kind |-> "choice", content |-> JStr(" Two tasks were saved. ")] }

\* lines 45-85: the synthesis by the LLM, with the stitched text as fallback
llm_answer(text, backend) ==
    CASE backend.kind = "unconfigured" -> Answer(text, 0)
      [] backend.kind = "client_error" -> Answer(ClientErrorPrefix \o text, 0)
      [] backend.kind = "call_error" -> Answer(text, 1)
      [] backend.kind = "no_choices" -> Answer(text, 1)
      [] OTHER -> IF backend.content.t # "str" THEN Answer(text, 1)
                  ELSE Answer(Strip(backend.content.s), 1)

AnswerReportsErrors(user_query, outs, backend) ==
    IF SelectSeq(Values(outs), is_success) = <<>>
    THEN Answer("Failed: " \o Unwrap(Values(outs)[1].error).type, 0)
    ELSE Answer(stitched(SelectSeq(Values(outs), is_success)), 0)

AllOutcomes(outs) == Values(outs)

\* line 28: the successful outcomes of a map, in the map's order
Successful(outs) == SelectSeq(Values(outs), is_success)

\* lines 28-85: the outcome map is not empty
answer_nonempty(user_query, outs, backend) ==
    LET successful == Successful(outs)
        review == review_from(successful)
    IN  IF successful = <<>> THEN Answer(TotalFailureText, 0)
        ELSE IF review.kind = "return" THEN Answer(review.text, 0)
        ELSE IF review.kind = "raise" THEN AnswerRaises
        ELSE llm_answer(stitched(successful), backend)

ComposeWithoutEmptyCheck(user_query, outs, backend) ==
    answer_nonempty(user_query, outs, backend)

\* lines 22-85
compose_final_answer(user_query, outs, backend) ==
    IF outs = <<>> THEN Answer(OutOfScopeText, 0)
    ELSE answer_nonempty(user_query, outs, backend)

\* the outcomes a map handed to compose_final_answer is made of
ReviewOutcome(text) == Outcome(REVIEWER, SuccessWith(JStr(text)))
AnswerOutcomes ==
    { Outcome(KB, SuccessWith(ResultText)),
      Outcome(KB, SuccessWith(JStr(""))),
      Outcome(KB, SuccessNoOutput),
      Outcome(KB, ErrorOnly),
      Outcome(KB, ErrorWithOutput(ResultCount)),
      ReviewOutcome("Looks fine.") }
    \cup { ReviewOutcome(text) : text \in DOMAIN JsonDocuments }

AnswerMaps ==
    { [n \in 1..Len(rs) |-> Entry(n - 1, rs[n])] :
        rs \in UNION { [1..n -> AnswerOutcomes] : n \in 0..MaxOutcomes } }

AnswerInit ==
    /\ arg_answer_query \in {"", "what's the weather today"}
    /\ arg_answer_outputs \in AnswerMaps
    /\ answer_backend \in AnswerBackends
    /\ answer_llm_calls = 0
    /\ answer_raised = FALSE
    /\ ret_answer = None
    /\ ResolveIdle
    /\ PlannerIdle
    /\ ExecIdle
    /\ RunsIdle
    /\ FocusIdle /\ QueryIdle

\* lines 22-85: compose_final_answer is called and returns or raises
AnswerCall ==
    /\ ret_answer = None /\ ~answer_raised
    /\ LET result == compose_final_answer(arg_answer_query, arg_answer_outputs,
                                          answer_backend)
       IN  /\ answer_raised' = result.raised
           /\ ret_answer' = IF result.raised THEN None ELSE Some(result.text)
           /\ answer_llm_calls' = answer_llm_calls + result.llm_calls
    /\ UNCHANGED <<arg_answer_query, arg_answer_outputs, answer_backend, execVars, concurrentVars, focusVars, queryVars,
                   resolveVars, plannerVars>>

SpecAnswer == AnswerInit /\ [][AnswerCall]_vars

(***************************************************************************)
(* Claims about compose_final_answer, checked under SpecAnswer.            *)
(***************************************************************************)
\* C18: compose_final_answer does not raise and the text it returns is not
\* empty, for every outcome map and every behaviour of the LLM backend.
C18_AnswerTotalNonEmpty ==
    /\ ~answer_raised
    /\ IsSome(ret_answer) => Unwrap(ret_answer) # ""

\* C19: with an empty outcome map the answer is the fixed out-of-scope text
\* and no request is sent to the LLM, whatever the query and the backend.
C19_EmptyMapOutOfScope ==
    (arg_answer_outputs = <<>> /\ (IsSome(ret_answer) \/ answer_raised)) =>
        /\ ret_answer = Some(OutOfScopeText)
        /\ answer_llm_calls = 0

C19_Witness ==
    /\ arg_answer_outputs = <<>>
    /\ arg_answer_query = "what's the weather today"
    /\ answer_backend = [kind |-> "choice", content |-> JStr(" Two tasks were saved. ")]
    /\ ret_answer = Some(OutOfScopeText)

\* C20: with a map that is not empty and holds no outcome of status success
\* the answer is the fixed total-failure text, the same for every such map:
\* no error type of a failed step is in it, and no request is sent to the LLM.
C20_AllFailedFixedText ==
    ( /\ arg_answer_outputs # <<>>
      /\ \A n \in 1..Len(arg_answer_outputs) : arg_answer_outputs[n].val.status # "success"
      /\ (IsSome(ret_answer) \/ answer_raised) ) =>
        /\ ret_answer = Some(TotalFailureText)
        /\ answer_llm_calls = 0
        /\ \A n \in 1..Len(arg_answer_outputs) :
              ~Contains(Unwrap(ret_answer), Unwrap(arg_answer_outputs[n].val.error).type)

C20_Witness ==
    /\ Len(arg_answer_outputs) = 2
    /\ arg_answer_outputs[1].val = Outcome(KB, ErrorOnly)
    /\ arg_answer_outputs[2].val = Outcome(KB, ErrorWithOutput(ResultCount))
    /\ answer_backend = [kind |-> "choice", content |-> JStr(" Two tasks were saved. ")]
    /\ ret_answer = Some(TotalFailureText)

\* the ways the synthesis by the LLM fails: no key or no library, a client
\* that cannot be built, a failing request, a response without choices, and
\* a choice whose content is None (its .strip() raises inside the try)
FailingBackends ==
    { b \in AnswerBackends :
        \/ b.kind \in {"unconfigured", "client_error", "call_error", "no_choices"}
        \/ (b.kind = "choice" /\ b.content.t # "str") }

\* C21: with a successful outcome and no document-review rendering, every
\* failure of the LLM synthesis makes compose_final_answer return exactly the
\* stitched text, the text it returns without an LLM backend.
C21_LLMFailureReturnsStitched ==
    ( /\ IsSome(ret_answer)
      /\ Successful(arg_answer_outputs) # <<>>
      /\ review_from(Successful(arg_answer_outputs)).kind = "none"
      /\ answer_backend \in FailingBackends ) =>
        /\ ret_answer = Some(stitched(Successful(arg_answer_outputs)))
        /\ ret_answer =
             Some(compose_final_answer(arg_answer_query, arg_answer_outputs,
                                       [kind |-> "unconfigured"]).text)

\* the texts str(result) of the outcomes of a map that have status success
\* and carry an output, in the map's order
RECURSIVE SuccessfulResults(_)
SuccessfulResults(outs) ==
    IF outs = <<>> THEN <<>>
    ELSE (IF Head(outs).val.status = "success" /\ IsSome(Head(outs).val.output)
          THEN << PyStr(Unwrap(Head(outs).val.output).result) >>
          ELSE <<>>)
         \o SuccessfulResults(Tail(outs))

SomeSucceeded(outs) == \E n \in 1..Len(outs) : outs[n].val.status = "success"

\* C22: without an LLM backend and without a document-review rendering, the
\* answer to a map with a successful outcome is the texts str(result) of
\* exactly its successful outcomes, in the map's order, joined by " | "; no
\* result of a failed outcome is part of it and no request goes to the LLM.
C22_StitchedSuccessfulResults ==
    ( /\ IsSome(ret_answer) \/ answer_raised
      /\ answer_backend.kind = "unconfigured"
      /\ SomeSucceeded(arg_answer_outputs)
      /\ review_from(Successful(arg_answer_outputs)).kind = "none" ) =>
        /\ ret_answer = Some(JoinWith(" | ", SuccessfulResults(arg_answer_outputs)))
        /\ answer_llm_calls = 0

C22_Witness ==
    /\ answer_backend.kind = "unconfigured"
    /\ Len(arg_answer_outputs) = 2
    /\ arg_answer_outputs[1].val = Outcome(KB, ErrorWithOutput(ResultCount))
    /\ arg_answer_outputs[2].val = Outcome(KB, SuccessWith(ResultText))
    /\ ret_answer = Some("3 tasks saved")

\* lines 37-39: an outcome of the document reviewer whose result is the text
\* of a JSON object, the form of a document review
CarriesReview(r) ==
    /\ r.agent_name = REVIEWER
    /\ IsSome(r.output)
    /\ json_loads(PyStr(Unwrap(r.output).result)).exc = ""
    /\ json_loads(PyStr(Unwrap(r.output).result)).value.t = "object"

\* the markdown of the review an outcome carries, None when the rendering
\* ends in an exception
Rendering(r) ==
    LET rendered == format_review_as_markdown(
                        json_loads(PyStr(Unwrap(r.output).result)).value)
    IN  IF rendered.exc = "" THEN Some(rendered.lines[1]) ELSE None

\* C23: when a successful outcome carries a JSON document review,
\* compose_final_answer returns the markdown rendering of such a review and
\* sends no request to the LLM; for the same map the answer is the same under
\* every behaviour of the LLM backend.
C23_ReviewRenderedWithoutLLM ==
    ( /\ IsSome(ret_answer) \/ answer_raised
      /\ \E n \in 1..Len(arg_answer_outputs) :
            /\ is_success(arg_answer_outputs[n].val)
            /\ CarriesReview(arg_answer_outputs[n].val) ) =>
        /\ ~answer_raised
        /\ answer_llm_calls = 0
        /\ \E n \in 1..Len(arg_answer_outputs) :
              /\ is_success(arg_answer_outputs[n].val)
              /\ CarriesReview(arg_answer_outputs[n].val)
              /\ ret_answer = Rendering(arg_answer_outputs[n].val)
        /\ \A b \in AnswerBackends :
              compose_final_answer(arg_answer_query, arg_answer_outputs, b)
                = compose_final_answer(arg_answer_query, arg_answer_outputs,
                                       answer_backend)

(***************************************************************************)
(* The control flow of one request: the planner's plan is executed against *)
(* the same registry and the outcome map is handed to the synthesizer      *)
(* (server.py, lines 122, 132 and 205).                                    *)
(***************************************************************************)
\* server.py line 132: execute_plan is called with the plan of the planner
PipelineExecute ==
    /\ pc = "idle" /\ IsSome(ret_plan)
    /\ query' = arg_query
    /\ plan' = Unwrap(ret_plan)
    /\ registry' = arg_registry
    /\ pc' = "loop"
    /\ idx' = 1
    /\ UNCHANGED <<step_outputs, used_agents, in_flight, calls, execFrame>>

\* the backend compose_final_answer meets reads the same API key as the
\* planner's: without a client for the planner there is none for the answer
BackendsFor(configured) ==
    IF configured THEN { b \in AnswerBackends : b.kind # "unconfigured" }
    ELSE { b \in AnswerBackends : b.kind \in {"unconfigured", "client_error"} }

\* server.py line 205: compose_final_answer is called with the outcome map
PipelineAnswer ==
    /\ pc = "done" /\ ret_answer = None /\ ~answer_raised
    /\ \E backend \in BackendsFor(llm_configured) :
          LET result == compose_final_answer(query, step_outputs, backend)
          IN  /\ arg_answer_query' = query
              /\ arg_answer_outputs' = step_outputs
              /\ answer_backend' = backend
              /\ answer_raised' = result.raised
              /\ ret_answer' = IF result.raised THEN None ELSE Some(result.text)
              /\ answer_llm_calls' = answer_llm_calls + result.llm_calls
    /\ UNCHANGED <<execVars, resolveVars, plannerVars, concurrentVars, focusVars, queryVars>>

PipelineNext ==
    \/ PlanByHeuristic
    \/ PlanOutOfScope
    \/ PlanByLLM
    \/ PipelineExecute
    \/ StepLookupFails
    \/ StepDispatch
    \/ StepRecord
    \/ StepRecordTriggerSkipped
    \/ StepRecordTriggerDispatch
    \/ CascadeRecord
    \/ ExecReturn
    \/ PipelineAnswer

SpecPipeline == PlannerInit /\ [][PipelineNext]_vars

\* the queries of the model that no heuristic rule matches
NoMatchQueries == { q \in PlannerQueries : MatchingRules(q) = {} }

\* C15: when no rule matches the query and no LLM backend is configured, the
\* planner returns the empty plan without asking a model; its execution
\* dispatches no call and ends with an empty outcome map and an empty
\* used-agent list, and the answer composed from it is the out-of-scope text.
C15_NoMatchNoLLMOutOfScope ==
    (~llm_configured /\ arg_query \in NoMatchQueries /\ IsSome(ret_plan)) =>
        /\ ret_plan = Some(<<>>)
        /\ llm_calls = 0
        /\ calls = <<>> /\ in_flight = {}
        /\ step_outputs = <<>> /\ used_agents = <<>>
        /\ pc \in {"idle", "loop", "done"}
        /\ ~answer_raised
        /\ answer_llm_calls = 0
        /\ IsSome(ret_answer) => ret_answer = Some(OutOfScopeText)

C15_Witness ==
    /\ ~llm_configured
    /\ arg_query = "what's the weather today"
    /\ arg_query \in NoMatchQueries
    /\ ret_plan = Some(<<>>)
    /\ pc = "done" /\ step_outputs = <<>> /\ calls = <<>>
    /\ arg_answer_outputs = <<>>
    /\ ret_answer = Some(OutOfScopeText)

(***************************************************************************)
(* Two requests handled concurrently.  handle_query of server.py awaits    *)
(* execute_plan once per request, so two coroutines of execute_plan can be *)
(* suspended at their awaits at the same time and the event loop resumes   *)
(* them in any order.  A frame holds the arguments and locals of one       *)
(* coroutine; the dict and the list it builds are objects of the heap the  *)
(* frame refers to; `registry` is the list both coroutines are handed.     *)
(***************************************************************************)
RunIds == {1, 2}

RunQuery(r) == IF r = 1 THEN "create task: fix login bug" ELSE "add task: write docs"

ConcurrentPlans ==
    { << PlanStep(0, KB, "create_task", "user_query") >>,
      << PlanStep(0, KB, "create_task", "user_query"),
         PlanStep(1, KB, "add_task", "step:0.output.result") >>,
      << PlanStep(0, KB, "add_task", "user_query"),
         PlanStep(1, TDA, "task.resolve_dependencies", "step:0.output.result") >> }

ConcurrentRegistries == { SubRegistry({KB, TDA}), SubRegistry({KB}) }

\* lines 96-97: the empty dict and the empty list
EmptyMem == [outputs |-> <<>>, used |-> <<>>]

SharedObject(r) == 1

\* lines 96-97: each call of execute_plan builds a dict and a list of its own
new_object(r) == r

\* lines 89-98: the coroutine of request r at the head of its loop
Frame(r, p) ==
    [id |-> r, query |-> RunQuery(r), plan |-> p, pc |-> "loop", idx |-> 1,
     ref |-> new_object(r), ncalls |-> 0, text |-> "", replies |-> <<>>]

\* lines 103-106
record_step(mem, step, agent_meta, response) ==
    [outputs |-> DictSet(mem.outputs, step.step_id, response),
     used |-> Append(mem.used,
                     UsedAgentEntry(agent_meta.name, step.intent, response.status))]

\* lines 121-129
record_cascade(mem, tda_meta, tda_response) ==
    [outputs |-> DictSet(mem.outputs, next_step_id(mem.outputs), tda_response),
     used |-> Append(mem.used,
                     UsedAgentEntry(tda_meta.name, "task.resolve_dependencies",
                                    tda_response.status))]

\* lines 99-102 up to the await, or line 137: the frame after the stretch
advance(f, mem, reg) ==
    IF f.idx > Len(f.plan) THEN [f EXCEPT !.pc = "done"]
    ELSE IF find_agent_by_name(f.plan[f.idx].agent, reg) = 0
    THEN [f EXCEPT !.pc = "raised"]
    ELSE [f EXCEPT !.pc = AwaitCall(f.idx).pc, !.idx = AwaitCall(f.idx).idx,
                   !.ncalls = @ + 1,
                   !.text = resolve_input(f.plan[f.idx].input_source, f.query,
                                          mem.outputs)]

\* lines 102-135 from an await to the next await or the head of the loop:
\* the frame and the objects after the stretch
resume(f, mem, reg, reply) ==
    LET step == f.plan[f.idx]
        agent_meta == reg[find_agent_by_name(step.agent, reg)]
        g == [f EXCEPT !.replies = Append(@, reply)]
        onward == [g EXCEPT !.pc = NextIteration(f.idx).pc,
                            !.idx = NextIteration(f.idx).idx]
    IN  IF f.pc = "await_call"
        THEN LET response == call_agent(<<f.id, f.ncalls>>, agent_meta, reply)
                 recorded == record_step(mem, step, agent_meta, response)
             IN  IF TriggerCondition(step, response) /\ find_agent_by_name(TDA, reg) # 0
                 THEN [frame |-> [g EXCEPT !.pc = AwaitTrigger(f.idx).pc,
                                           !.idx = AwaitTrigger(f.idx).idx,
                                           !.ncalls = @ + 1],
                       mem |-> recorded]
                 ELSE [frame |-> onward, mem |-> recorded]
        ELSE LET tda_meta == reg[find_agent_by_name(TDA, reg)]
                 tda_response ==
                     call_agent_with_trigger(<<f.id, f.ncalls>>, tda_meta, reply)
             IN  [frame |-> onward, mem |-> record_cascade(mem, tda_meta, tda_response)]

ConcurrentInit ==
    /\ ResolveIdle /\ PlannerIdle /\ AnswerIdle /\ FocusIdle /\ QueryIdle
    /\ query = "" /\ plan = <<>> /\ pc = "idle" /\ idx = 0
    /\ step_outputs = <<>> /\ used_agents = <<>> /\ in_flight = {} /\ calls = <<>>
    /\ registry \in ConcurrentRegistries
    /\ \E p1 \in ConcurrentPlans, p2 \in ConcurrentPlans :
          runs = << Frame(1, p1), Frame(2, p2) >>
    /\ heap = << EmptyMem, EmptyMem >>

concurrentFrame ==
    <<query, plan, registry, pc, idx, step_outputs, used_agents, in_flight, calls,
      resolveVars, plannerVars, answerVars, focusVars, queryVars>>

\* the event loop runs coroutine r from the head of its loop to its next await
RunAdvance(r) ==
    /\ runs[r].pc = "loop"
    /\ runs' = [runs EXCEPT ![r] = advance(runs[r], heap[runs[r].ref], registry)]
    /\ UNCHANGED <<heap, concurrentFrame>>

\* the awaited call of coroutine r has its reply and the event loop resumes r
RunResume(r) ==
    /\ runs[r].pc \in {"await_call", "await_tda"}
    /\ \E reply \in WorkerReplies :
          LET after == resume(runs[r], heap[runs[r].ref], registry, reply)
          IN  /\ runs' = [runs EXCEPT ![r] = after.frame]
              /\ heap' = [heap EXCEPT ![runs[r].ref] = after.mem]
    /\ UNCHANGED concurrentFrame

ConcurrentNext ==
    \/ \E r \in RunIds : RunAdvance(r)
    \/ \E r \in RunIds : RunResume(r)

SpecConcurrent == ConcurrentInit /\ [][ConcurrentNext]_vars

\* execute_plan run alone: the coroutine is resumed with the given replies,
\* one after the other, and nothing else runs in between
RECURSIVE run_alone(_, _, _, _)
run_alone(f, mem, reg, replies) ==
    IF f.pc \in {"done", "raised"} THEN [frame |-> f, mem |-> mem]
    ELSE IF f.pc = "loop" THEN run_alone(advance(f, mem, reg), mem, reg, replies)
    ELSE IF replies = <<>> THEN [frame |-> f, mem |-> mem]
    ELSE LET after == resume(f, mem, reg, Head(replies))
         IN  run_alone(after.frame, after.mem, reg, Tail(replies))

Finished(r) == runs[r].pc \in {"done", "raised"}

\* what request r gets back is what it would get back alone
ReturnsAsAlone(r) ==
    LET alone == run_alone(Frame(r, runs[r].plan), EmptyMem, registry, runs[r].replies)
    IN  /\ alone.frame.pc = runs[r].pc
        /\ heap[runs[r].ref].outputs = alone.mem.outputs
        /\ heap[runs[r].ref].used = alone.mem.used

\* C24: under every interleaving of two execute_plan coroutines at their
\* awaits, each returns the outcome map and the used-agent list it returns
\* when run alone with the same worker replies, and no step changes the
\* registry.
C24_ConcurrentRunsIndependent ==
    /\ [](\A r \in RunIds : Finished(r) => ReturnsAsAlone(r))
    /\ [][registry' = registry]_vars

\* request 1 is suspended in its cascaded call, with one outcome recorded,
\* and request 2 has run to its return meanwhile
C24_Witness ==
    /\ runs # <<>>
    /\ runs[1].pc = "await_tda" /\ Len(heap[runs[1].ref].outputs) = 1
    /\ runs[2].pc = "done" /\ Len(runs[2].plan) = 2 /\ Len(runs[2].replies) = 3
    /\ ReturnsAsAlone(2)

(***************************************************************************)
(* Forward and self references (executor.py:99-103, 20-35): plans whose    *)
(* steps refer to their own id or to the id of a later step.               *)
(***************************************************************************)
ForwardInputs == { "step:0.output.result", "step:1.output.result" }
ForwardSteps == { PlanStep(sid, t[1], t[2], src) :
                    sid \in StepIds, t \in StepTargets, src \in ForwardInputs }
ForwardPlans == UNION { [1..n -> ForwardSteps] : n \in 0..MaxSteps }

ForwardInit ==
    /\ ResolveIdle
    /\ RunsIdle
    /\ FocusIdle /\ QueryIdle
    /\ PlannerIdle
    /\ AnswerIdle
    /\ query \in Queries
    /\ plan \in ForwardPlans
    /\ registry \in Registries
    /\ pc = "loop"
    /\ idx = 1
    /\ step_outputs = <<>>
    /\ used_agents = <<>>
    /\ in_flight = {}
    /\ calls = <<>>

SpecForward == ForwardInit /\ [][Next]_vars

\* the step being dispatched refers to the id of a plan step at position
\* idx or later, and to no earlier one
RefersForward ==
    \E N \in StepIds :
        /\ plan[idx].input_source \in RefForms(N)
        /\ \E m \in idx..Len(plan) : plan[m].step_id = N
        /\ \A m \in 1..(idx - 1) : plan[m].step_id # N

\* C31: when the input of step k is resolved, a reference to step k's own
\* id or to the id of a later step of the plan resolves to the original
\* query.
C31_ForwardReferenceResolvesToQuery ==
    (pc = "await_call" /\ DistinctPlanIds /\ RefersForward)
        => Pending.input = [text |-> query]


(***************************************************************************)
(* agents/focus_enforcer_service.py: the focus enforcer worker.            *)
(*   MonitoringState, monitor_loop, analyze_focus, get_fallback_analysis,  *)
(*   handle_start_monitoring, handle_stop_monitoring, handle_analyze_focus,*)
(*   handle_check_status, handle_supervisor_request, legacy_start_focus    *)
(* The service runs on one asyncio event loop: every request handler and   *)
(* every monitor_loop is a task, a task runs from one await to the next    *)
(* without interruption, and the loop steps the tasks of its ready queue   *)
(* in the order in which they were made ready.                             *)
(***************************************************************************)
HistoryLimit == 100     \* line 249: entries kept in state.activity_history
MaxRequests == 5        \* most start and stop requests that arrive in one behaviour
MaxStarts == 3          \* most requests where both start endpoints are used
MaxStops == 2           \* most requests where the loop is followed to its end
MaxEntries == 2         \* longest activity history handed to an analysis on request
MaxHandled == 2         \* most /handle requests of any intent in one behaviour
MaxQueries == 3         \* most /api/query requests in one behaviour
MaxTicks == 2           \* most sleeps of monitor loops that run out

JBool(b) == [t |-> "bool", b |-> b]
\* bool(v), JSON true and false included
IsTrue(v) == IF v.t = "bool" THEN v.b ELSE Truthy(v)

\* state.activity_history entry, lines 243-246
ActivityEntry(t, w) == [timestamp |-> t, window_title |-> w]

\* s.split(',')
RECURSIVE SplitComma(_)
SplitComma(s) ==
    IF IndexOf(s, ",") = 0 THEN <<s>>
    ELSE <<SplitHead(s, ",")>> \o SplitComma(SplitRest(s, ","))

\* lines 410-411: the stripped, non-empty, lower-case target apps
target_apps(target_apps_str) ==
    LET parts == SplitComma(Lower(target_apps_str))
    IN  { Strip(parts[i]) : i \in 1..Len(parts) } \ { "" }

\* lines 435-436
distraction_keywords ==
    { "youtube", "reddit", "twitter", "facebook", "instagram", "netflix", "hulu",
      "game", "discord", "tiktok", "friv", "hianime" }

\* lines 444-445 and 452: any(dk in title.lower() for dk in distraction_keywords)
IsDistraction(title) == \E dk \in distraction_keywords : Contains(Lower(title), dk)

\* the window titles, target_apps texts and commands of the model; the
\* string tests on them are evaluated once
KnownTitles ==
    { "main.py - VS Code", "YouTube", "YouTube - Terminal", "Notepad", "inbox - jira" }
KnownApps == { "VS Code, Browser, Terminal", "Jira, VS Code", "", " , " }
KnownCommands ==
    { "CONTINUE MONITORING", "STRICT POPUP: Back to work.", "NOTIFY: Refocus.",
      "strict popup: back to work",
      "STRICT POPUP: Your focus has dropped significantly. Please return to your task immediately.",
      "NOTIFY: You seem distracted. Consider refocusing on your current task." }
distracting == [w \in KnownTitles |-> IsDistraction(w)]

StrictPopup ==
    "STRICT POPUP: Your focus has dropped significantly. Please return to your task immediately."
Notify == "NOTIFY: You seem distracted. Consider refocusing on your current task."
ContinueMonitoring == "CONTINUE MONITORING"

\* lines 431-472; the score is max(0, int(100 - ratio * 100)), which is
\* 100 * (total - count) \div total for every history of fewer than 20 entries
get_fallback_analysis(reason, activity_history) ==
    LET distraction_count ==
            Cardinality({ i \in 1..Len(activity_history) :
                            distracting[activity_history[i].window_title] })
        total_entries == IF activity_history # <<>> THEN Len(activity_history) ELSE 1
        score == (100 * (total_entries - distraction_count)) \div total_entries
        is_currently_distracted ==
            /\ activity_history # <<>>
            /\ distracting[activity_history[Len(activity_history)].window_title]
        command ==
            IF is_currently_distracted /\ score < 40 THEN StrictPopup
            ELSE IF is_currently_distracted /\ score < 70 THEN Notify
            ELSE ContinueMonitoring
    IN  [ focus_state |-> IF is_currently_distracted THEN "DISTRACTED" ELSE "FOCUSED",
          productivity_score |-> JInt(score),
          intervention_needed |-> is_currently_distracted,
          supervisor_command |-> JStr(command),
          reasoning |-> JStr("Fallback analysis (" \o reason \o "): "
                             \o ToString(distraction_count) \o "/"
                             \o ToString(total_entries) \o " distraction entries.") ]

\* lines 389-397: the analysis built from the object the LLM answered with
llm_analysis(llm_result) ==
    [ focus_state |-> IF IsTrue(GetOr(llm_result, "is_focused", JBool(FALSE)))
                      THEN "FOCUSED" ELSE "DISTRACTED",
      productivity_score |-> GetOr(llm_result, "productivity_score", JInt(0)),
      intervention_needed |-> ~IsTrue(GetOr(llm_result, "is_focused", JBool(FALSE))),
      supervisor_command |-> GetOr(llm_result, "supervisor_command", JStr(ContinueMonitoring)),
      reasoning |-> GetOr(llm_result, "reasoning", JStr("Analysis complete.")) ]

\* what co.chat and the parsing of its answer give, lines 376-405: the call
\* raises, the answer has no content, the text is no JSON, or it is a JSON
\* value
ChatRaises == [kind |-> "raises", value |-> JNull]
ChatEmpty == [kind |-> "empty", value |-> JNull]
ChatInvalid == [kind |-> "invalid", value |-> JNull]
ChatJson(v) == [kind |-> "json", value |-> v]

\* lines 378-405: the analysis after the answer of the LLM; llm_result.get
\* of a value that is no object raises AttributeError, caught at line 403
analysis_of_reply(reply, activity_history) ==
    CASE reply.kind = "raises" ->
            get_fallback_analysis("LLM error: ...", activity_history)
      [] reply.kind = "empty" ->
            get_fallback_analysis("Empty LLM response", activity_history)
      [] reply.kind = "invalid" ->
            get_fallback_analysis("JSON parse error", activity_history)
      [] reply.value.t # "object" ->
            get_fallback_analysis("LLM error: ...", activity_history)
      [] OTHER -> llm_analysis(reply.value.fields)

\* the outcome of a stretch of analyze_focus: the exception that left it or
\* the analysis
Escapes(exception, analysis) == [exc |-> exception, analysis |-> analysis]
Analysed(analysis) == [exc |-> "", analysis |-> analysis]

OverrideNote == " [System Override: User returned to target app]"

\* line 414: any(app in current_window for app in target_apps)
InTargetApp(title, target_apps_str) ==
    \E app \in target_apps(target_apps_str) : Contains(Lower(title), app)
in_target_app == [w \in KnownTitles |-> [a \in KnownApps |-> InTargetApp(w, a)]]
is_currently_working(activity_history, target_apps_str) ==
    in_target_app[activity_history[Len(activity_history)].window_title][target_apps_str]

\* line 417: "STRICT POPUP" in command
has_strict_popup == [c \in KnownCommands |-> Contains(c, "STRICT POPUP")]

\* lines 417-422: the downgrade of a strict popup
Untouched(analysis) == analysis
Downgraded(analysis) ==
    [analysis EXCEPT !.supervisor_command = JStr(ContinueMonitoring),
                     !.focus_state = "RECOVERING",
                     !.reasoning = JStr(analysis.reasoning.s \o OverrideNote),
                     !.intervention_needed = FALSE]

\* lines 407-422: the recency override; .lower() of a target_apps that is no
\* string, "in" on a command that is no string and += on a reasoning that
\* is no string raise
recency_override(analysis, activity_history, paa_data) ==
    LET apps == GetOr(paa_data, "target_apps", JStr(""))
        command == analysis.supervisor_command
    IN  IF activity_history = <<>> THEN Analysed(analysis)
        ELSE IF apps.t # "str" THEN Escapes("AttributeError", analysis)
        ELSE IF ~is_currently_working(activity_history, apps.s) THEN Analysed(analysis)
        ELSE IF command.t # "str" THEN Escapes("TypeError", analysis)
        ELSE IF ~has_strict_popup[command.s] THEN Analysed(analysis)
        ELSE IF analysis.reasoning.t # "str" THEN Escapes("TypeError", analysis)
        ELSE Analysed(Downgraded(analysis))

\* lines 425-426 and 183-204: what _handle_intervention does with the
\* command: nothing, a popup handed to the executor, or an exception
intervention(command) ==
    IF ~Truthy(command) THEN "none"
    ELSE IF command.t # "str" THEN "AttributeError"
    ELSE IF StartsWith(command.s, "STRICT POPUP:") \/ StartsWith(command.s, "NOTIFY:")
         THEN "popup"
    ELSE "none"


(***************************************************************************)
(* The state object, requests, responses and task frames.                  *)
(***************************************************************************)
\* lines 138-150; hourly_summary stays [] and is left out
MonitoringState ==
    [ is_running |-> FALSE, user_id |-> None, focus_task |-> None,
      activity_history |-> <<>>, paa_data |-> <<>>, dg_data |-> <<>>,
      last_analysis |-> None ]

\* a request as it reaches an endpoint: SupervisorRequest for /handle
\* (lines 86-92), StartFocusRequest for /start_focus (lines 119-123, text
\* is critical_deadline and extra holds goal and target_apps)
FocusRequest(endpoint, id, intent, text, extra, user) ==
    [ endpoint |-> endpoint, request_id |-> id, intent |-> intent, text |-> text,
      extra |-> extra, user_id |-> user ]
NoRequest == FocusRequest("", "", "", "", <<>>, "")

\* SupervisorResponse, lines 106-112: result is the "status" of the result
\* object ("analysis" for an analysis, which is then carried whole)
FocusResponse(req, status, result, analysis, error) ==
    [ request_id |-> req.request_id, agent_name |-> "focus_enforcer_agent",
      status |-> status, result |-> result, analysis |-> analysis, error |-> error ]

\* the frame of a task: pc is "new" before the first step, the await the
\* coroutine is suspended at, "done" after its return and "cancelled" when
\* CancelledError left it
NewTask(kind, req) ==
    [ kind |-> kind, pc |-> "new", req |-> req, must_cancel |-> FALSE, waits_for |-> 0,
      reply |-> None, an_paa |-> <<>>, an_hist |-> None, an_result |-> None, ret |-> None ]

Ended(f) == f.pc \in {"done", "cancelled"}
InReady(rd, t) == \E i \in 1..Len(rd) : rd[i] = t

\* what a step of a task works on
World == [state |-> state, tasks |-> tasks, ready |-> ready, shown |-> shown, now |-> now]

Suspend(W, t, at) == [W EXCEPT !.tasks[t].pc = at]

\* the tasks awaiting task t, in the order of their creation
Joiners(tk, t) ==
    SelectSeq([j \in 1..Len(tk) |-> j],
              LAMBDA j : tk[j].pc = "join" /\ tk[j].waits_for = t)

\* task t ends: its locals are dropped and the tasks awaiting it are made ready
Finish(W, t, how, ret) ==
    [W EXCEPT !.tasks[t] = [@ EXCEPT !.pc = how, !.ret = ret, !.must_cancel = FALSE,
                                     !.reply = None, !.an_paa = <<>>, !.an_hist = None,
                                     !.an_result = None],
              !.ready = @ \o Joiners(W.tasks, t)]

Respond(W, t, response) == Finish(W, t, "done", Some(response))

\* Task.cancel(): nothing for a task that has ended; otherwise CancelledError
\* is thrown into the coroutine at its next step, which is scheduled now
\* unless it already is
cancel(W, T) ==
    IF Ended(W.tasks[T]) THEN W
    ELSE [W EXCEPT !.tasks[T].must_cancel = TRUE,
                   !.ready = IF InReady(@, T) THEN @ ELSE Append(@, T)]

\* state.activity_history is bound to a new list: an analysis that was
\* handed the old list keeps it
Detach(tk, old_list) ==
    [j \in 1..Len(tk) |->
        IF tk[j].pc = "llm" /\ tk[j].an_hist = None
        THEN [tk[j] EXCEPT !.an_hist = Some(old_list)]
        ELSE tk[j]]

\* the activity_history list analyze_focus was handed, line 352
seen_history(W, t) ==
    IF W.tasks[t].an_hist = None THEN W.state.activity_history
    ELSE Unwrap(W.tasks[t].an_hist)

(***************************************************************************)
(* analyze_focus as run by monitor_loop (line 255) and by                  *)
(* handle_analyze_focus (line 588), both with execute_intervention=True.   *)
(***************************************************************************)
\* line 603: productivity_score / 100.0
Divisible(score) == score.t \in {"int", "float", "bool"}

\* analyze_focus raised: monitor_loop catches it at line 271 and sleeps,
\* handle_supervisor_request answers handler_error (lines 686-693)
AnalysisRaised(W, t) ==
    IF W.tasks[t].kind = "monitor" THEN Suspend(W, t, "error_sleep")
    ELSE Respond(W, t, FocusResponse(W.tasks[t].req, "error", "", None, "handler_error"))

\* analyze_focus returned: lines 262-266 and 595-606
AnalysisReturned(W, t, analysis) ==
    LET W1 == [W EXCEPT !.state.last_analysis = Some(analysis)]
    IN  IF W.tasks[t].kind = "monitor" THEN Suspend(W1, t, "sleep")
        ELSE IF ~Divisible(analysis.productivity_score)
        THEN Respond(W1, t, FocusResponse(W.tasks[t].req, "error", "", None, "handler_error"))
        ELSE Respond(W1, t, FocusResponse(W.tasks[t].req, "success", "analysis",
                                          Some(analysis), ""))

\* lines 407-428, from the analysis of the LLM or the fallback onwards
AnalyzePost(W, t, analysis) ==
    LET out == recency_override(analysis, seen_history(W, t), W.tasks[t].an_paa)
        act == intervention(out.analysis.supervisor_command)
    IN  IF out.exc # "" \/ act = "AttributeError" THEN AnalysisRaised(W, t)
        ELSE IF act = "popup"
        THEN [W EXCEPT !.shown = @ \cup { out.analysis.supervisor_command.s },
                       !.tasks[t].an_result = Some(out.analysis),
                       !.tasks[t].pc = "popup"]
        ELSE AnalysisReturned(W, t, out.analysis)

\* lines 350-376
AnalyzeBegin(W, t) ==
    LET W1 == [W EXCEPT !.tasks[t].an_paa = W.state.paa_data, !.tasks[t].an_hist = None]
    IN  IF co = None
        THEN AnalyzePost(W1, t, get_fallback_analysis("Cohere client not available",
                                                      W.state.activity_history))
        ELSE Suspend(W1, t, "llm")

\* analyze_focus resumed at line 376 or at line 426
AnalyzeResume(W, t) ==
    IF W.tasks[t].pc = "llm"
    THEN AnalyzePost(W, t, analysis_of_reply(Unwrap(W.tasks[t].reply), seen_history(W, t)))
    ELSE AnalysisReturned(W, t, Unwrap(W.tasks[t].an_result))

(***************************************************************************)
(* monitor_loop, lines 227-275.                                            *)
(***************************************************************************)
\* h[-n:]
keep_first(h, n) == IF Len(h) > n THEN SubSeq(h, 1, n) ELSE h
keep_last(h, n) == IF Len(h) > n THEN SubSeq(h, Len(h) - n + 1, Len(h)) ELSE h

\* lines 243-250
record_activity(history, entry) ==
    IF Len(history) + 1 > HistoryLimit
    THEN keep_last(Append(history, entry), HistoryLimit)
    ELSE Append(history, entry)

\* lines 234-266 from the while test; w is the active window, due tells
\* whether analysis_interval has passed
MonitorIteration(W, t, w, due) ==
    IF ~W.state.is_running THEN Finish(W, t, "done", None)
    ELSE LET old == W.state.activity_history
             entry == ActivityEntry(W.now, w)
             W1 == [W EXCEPT !.state.activity_history = record_activity(old, entry),
                             !.now = @ + 1,
                             !.tasks = IF Len(old) + 1 > HistoryLimit
                                       THEN Detach(@, Append(old, entry)) ELSE @]
         IN  IF due THEN AnalyzeBegin(W1, t) ELSE Suspend(W1, t, "sleep")

\* CancelledError thrown at the await the loop is suspended at: caught at
\* line 268 inside the try block, not caught in the handler of line 271-273
\* and not before the first step
MonitorCancelled(W, t) ==
    IF W.tasks[t].pc \in {"new", "error_sleep"} THEN Finish(W, t, "cancelled", None)
    ELSE Finish(W, t, "done", None)

MonitorStep(W, t, w, due) ==
    IF W.tasks[t].must_cancel THEN MonitorCancelled(W, t)
    ELSE IF W.tasks[t].pc \in {"llm", "popup"} THEN AnalyzeResume(W, t)
    ELSE MonitorIteration(W, t, w, due)


(***************************************************************************)
(* The intent handlers and the endpoints, lines 479-724.                   *)
(***************************************************************************)
DeadlineJson == "{\"next_deadline\": \"Monday\"}"

\* json.loads(text) with the deadline text among the documents
deadline_loads(text) ==
    IF text = DeadlineJson
    THEN [exc |-> "", value |-> JObject([next_deadline |-> JStr("Monday")])]
    ELSE json_loads(text)

\* lines 479-493: data.get of a JSON value that is no object raises
\* AttributeError, which the except clause of line 488 does not catch
parse_deadline_data_from_input(text) ==
    LET data == deadline_loads(text)
    IN  IF data.exc # ""
        THEN [ exc |-> "",
               dg_data |-> [ critical_deadline |-> JStr(IF text # "" THEN text ELSE "TBD"),
                             deadline_risk |-> JStr("unknown") ] ]
        ELSE IF data.value.t # "object"
        THEN [ exc |-> "AttributeError", dg_data |-> <<>> ]
        ELSE LET d == data.value.fields
             IN  [ exc |-> "",
                   dg_data |->
                     [ critical_deadline |->
                         GetOr(d, "next_deadline", GetOr(d, "critical_deadline", JStr("TBD"))),
                       deadline_risk |->
                         GetOr(d, "risk_level", GetOr(d, "deadline_risk", JStr("unknown"))) ] ]

\* what a handler hands back to its caller: the exception that left it, or
\* the world it leaves and, unless it is suspended, its response
Raised(exception, W) == [exc |-> exception, W |-> W, response |-> None]
Handled(W, response) == [exc |-> "", W |-> W, response |-> Some(response)]
Awaiting(W) == [exc |-> "", W |-> W, response |-> None]

\* lines 509-523: a new session and its monitor task
start_session(W, req, dg_data) ==
    [W EXCEPT !.state = [@ EXCEPT
                 !.dg_data = dg_data,
                 !.paa_data =
                     [ goal |-> GetOr(req.extra, "goal", JStr("Complete current tasks")),
                       target_apps |-> GetOr(req.extra, "target_apps",
                                             JStr("VS Code, Browser, Terminal")) ],
                 !.is_running = TRUE,
                 !.user_id = Some(req.user_id),
                 !.activity_history = <<>>,
                 !.focus_task = Some(Len(W.tasks) + 1)],
              !.tasks = Append(Detach(@, W.state.activity_history), NewTask("monitor", NoRequest)),
              !.ready = Append(@, Len(W.tasks) + 1)]

\* lines 496-542
handle_start_monitoring(W, req) ==
    IF W.state.is_running
    THEN Handled(W, FocusResponse(req, "success", "already_active", None, ""))
    ELSE LET parsed == parse_deadline_data_from_input(req.text)
         IN  IF parsed.exc # "" THEN Raised(parsed.exc, W)
             ELSE Handled(start_session(W, req, parsed.dg_data),
                          FocusResponse(req, "success", "active", None, ""))

\* lines 567-581
stopped_summary(W, req) == Handled(W, FocusResponse(req, "success", "stopped", None, ""))

\* line 562: await state.focus_task
AwaitNothing(W, t, T) == [W EXCEPT !.tasks[t].waits_for = T, !.state.focus_task = None]
AwaitTask(W, t, T) ==
    IF Ended(W.tasks[T])
    THEN [W EXCEPT !.tasks[t].waits_for = T, !.state.focus_task = None]
    ELSE [W EXCEPT !.tasks[t].waits_for = T, !.tasks[t].pc = "join"]

\* lines 545-581 up to the await of line 562
handle_stop_monitoring(W, t, req) ==
    IF ~W.state.is_running
    THEN Handled(W, FocusResponse(req, "success", "inactive", None, ""))
    ELSE LET W1 == [W EXCEPT !.state.is_running = FALSE]
         IN  IF W1.state.focus_task = None THEN stopped_summary(W1, req)
             ELSE LET T == Unwrap(W1.state.focus_task)
                      W2 == AwaitTask(cancel(W1, T), t, T)
                  IN  IF W2.tasks[t].pc = "join" THEN Awaiting(W2)
                      ELSE stopped_summary(W2, req)

\* lines 563-581: the awaited task has ended, CancelledError is passed over
stop_resumed(W, t) ==
    stopped_summary([W EXCEPT !.state.focus_task = None], W.tasks[t].req)

\* lines 584-588: the deadline text is parsed before the analysis starts
handle_analyze_focus(W, t, req) ==
    LET parsed == parse_deadline_data_from_input(req.text)
    IN  IF parsed.exc # "" THEN Raised(parsed.exc, W)
        ELSE Awaiting(AnalyzeBegin(W, t))

\* lines 609-624
handle_check_status(W, req) == Handled(W, FocusResponse(req, "success", "status", None, ""))

\* lines 667-673
intent_handlers ==
    { "focus.start_monitoring", "focus.stop_monitoring", "focus.analyze",
      "focus.check_status", "productivity.assess" }

\* line 685: handler(request)
call_handler(W, t, req) ==
    CASE req.intent = "focus.start_monitoring" -> handle_start_monitoring(W, req)
      [] req.intent = "focus.stop_monitoring" -> handle_stop_monitoring(W, t, req)
      [] req.intent = "focus.check_status" -> handle_check_status(W, req)
      [] OTHER -> handle_analyze_focus(W, t, req)

Propagated(out, req) == out
\* lines 686-693
Caught_handler_error(out, req) ==
    IF out.exc # "" THEN Handled(out.W, FocusResponse(req, "error", "", None, "handler_error"))
    ELSE out

\* the task of a handler has run to its response or to an await
Settle(t, out) ==
    IF out.response # None THEN Respond(out.W, t, Unwrap(out.response))
    ELSE IF out.exc # "" THEN Finish(out.W, t, "done", None)
    ELSE out.W

\* lines 662-693, first step
handle_supervisor_request(W, t) ==
    LET req == W.tasks[t].req
    IN  IF req.intent \notin intent_handlers
        THEN Respond(W, t, FocusResponse(req, "error", "", None, "unknown_intent"))
        ELSE Settle(t, Caught_handler_error(call_handler(W, t, req), req))

\* lines 700-724: the session data is written before the handler is
\* called; an exception of the handler leaves the endpoint (no response of
\* the service's own, the task ends without one)
legacy_start_focus(W, t) ==
    LET req == W.tasks[t].req
        W1 == [W EXCEPT !.state.paa_data =
                            [ goal |-> GetOr(req.extra, "goal", JNull),
                              target_apps |-> GetOr(req.extra, "target_apps", JNull) ],
                        !.state.dg_data = [critical_deadline |-> JStr(req.text)]]
        inner == [req EXCEPT !.request_id = "uuid4", !.intent = "focus.start_monitoring"]
    IN  Settle(t, handle_start_monitoring(W1, inner))

\* a step of the task of a request
RequestStep(W, t) ==
    CASE W.tasks[t].pc = "new" ->
            IF W.tasks[t].req.endpoint = "/start_focus" THEN legacy_start_focus(W, t)
            ELSE handle_supervisor_request(W, t)
      [] W.tasks[t].pc = "join" -> Settle(t, stop_resumed(W, t))
      [] OTHER -> AnalyzeResume(W, t)

\* the event loop runs the task at the head of its ready queue up to its
\* next await
run_task(W, t, w, due) ==
    IF W.tasks[t].kind = "monitor" THEN MonitorStep(W, t, w, due) ELSE RequestStep(W, t)


(***************************************************************************)
(* The service: requests arrive, sleeps run out, executor jobs complete,   *)
(* and the event loop steps the tasks of its ready queue.                  *)
(***************************************************************************)
focusFrame == <<execVars, resolveVars, plannerVars, answerVars, concurrentVars, queryVars>>

OtherIdle == ExecIdle /\ ResolveIdle /\ PlannerIdle /\ AnswerIdle /\ RunsIdle /\ QueryIdle

\* the active window, line 237
WindowTitles == { "main.py - VS Code", "YouTube" }

\* a request reaches its endpoint: its task is created and made ready
Arrive ==
    /\ inbox # <<>>
    /\ inbox.left > 0
    /\ \E req \in inbox.pool :
          tasks' = Append(tasks, NewTask("request",
                                         [req EXCEPT !.request_id = ToString(Len(tasks) + 1)]))
    /\ ready' = Append(ready, Len(tasks) + 1)
    /\ inbox' = [inbox EXCEPT !.left = @ - 1]
    /\ UNCHANGED <<state, shown, now, co, focusFrame>>

\* asyncio.sleep(5) of a monitor loop runs out, lines 266 and 273
TimerFires ==
    /\ inbox # <<>>
    /\ inbox.ticks > 0
    /\ \E t \in 1..Len(tasks) :
          /\ tasks[t].pc \in {"sleep", "error_sleep"}
          /\ ~InReady(ready, t)
          /\ ready' = Append(ready, t)
    /\ inbox' = [inbox EXCEPT !.ticks = @ - 1]
    /\ UNCHANGED <<state, tasks, shown, now, co, focusFrame>>

\* a job handed to run_in_executor completes: co.chat (line 376) with one
\* of the answers of the client, or the popup (lines 194, 199)
ExecutorCompletes ==
    /\ \E t \in 1..Len(tasks) :
          /\ tasks[t].pc \in {"llm", "popup"}
          /\ ~InReady(ready, t)
          /\ \E reply \in (IF tasks[t].pc = "llm" THEN Unwrap(co) ELSE {ChatEmpty}) :
                tasks' = [tasks EXCEPT ![t].reply = IF tasks[t].pc = "llm" THEN Some(reply)
                                                    ELSE None]
          /\ ready' = Append(ready, t)
    /\ UNCHANGED <<state, inbox, shown, now, co, focusFrame>>

\* the event loop steps the task at the head of the ready queue
LoopStep ==
    /\ ready # <<>>
    /\ \E w \in WindowTitles, due \in BOOLEAN :
          \E W \in { run_task([World EXCEPT !.ready = Tail(ready)], Head(ready), w, due) } :
              /\ state' = W.state
              /\ tasks' = W.tasks
              /\ ready' = W.ready
              /\ shown' = W.shown
              /\ now' = W.now
    /\ UNCHANGED <<inbox, co, focusFrame>>

FocusNext == Arrive \/ TimerFires \/ ExecutorCompletes \/ LoopStep

\* the requests of the supervisor and of the legacy client
StartRequest(text, extra, user) ==
    FocusRequest("/handle", "", "focus.start_monitoring", text, extra, user)
StopRequest == FocusRequest("/handle", "", "focus.stop_monitoring", "", <<>>, "u1")
LegacyStart(goal, deadline, apps, user) ==
    FocusRequest("/start_focus", "", "", deadline,
                 [goal |-> JStr(goal), target_apps |-> JStr(apps)], user)

\* the answers of the LLM: an API error, and objects with and without a
\* strict popup
FocusedReply ==
    ChatJson(JObject([is_focused |-> JBool(TRUE), productivity_score |-> JInt(90),
                      supervisor_command |-> JStr(ContinueMonitoring),
                      reasoning |-> JStr("Working.")]))
StrictReply ==
    ChatJson(JObject([is_focused |-> JBool(FALSE), productivity_score |-> JInt(20),
                      supervisor_command |-> JStr("STRICT POPUP: Back to work."),
                      reasoning |-> JStr("Distracted.")]))

\* start and stop requests against a fresh service
StartStopInit ==
    /\ OtherIdle
    /\ state = MonitoringState
    /\ tasks = <<>>
    /\ ready = <<>>
    /\ inbox = [ pool |-> { StartRequest("Friday", <<>>, "u1"), StopRequest },
                 left |-> MaxRequests, ticks |-> MaxTicks ]
    /\ shown = {}
    /\ now = 0
    /\ co \in { None, Some({ChatRaises, StrictReply}) }

SpecFocus == StartStopInit /\ [][FocusNext]_vars


\* start requests of both endpoints, and a stop, against a fresh service
DuplicateStartInit ==
    /\ OtherIdle
    /\ state = MonitoringState
    /\ tasks = <<>>
    /\ ready = <<>>
    /\ inbox = [ pool |-> { StartRequest("Friday", <<>>, "u1"),
                            StartRequest(DeadlineJson, [goal |-> JStr("Ship it")], "u2"),
                            LegacyStart("Ship it", "Monday", "Jira, VS Code", "u2"),
                            StopRequest },
                 left |-> MaxStarts, ticks |-> MaxTicks ]
    /\ shown = {}
    /\ now = 0
    /\ co = None

SpecDuplicateStart == DuplicateStartInit /\ [][FocusNext]_vars

\* task t gets its response in this step, with the given result
AnswersWith(t, result) ==
    /\ t \in 1..Len(tasks)
    /\ tasks[t].ret = None
    /\ tasks'[t].ret # None
    /\ Unwrap(tasks'[t].ret).result = result

\* C32: a start request handled while monitoring is running, through
\* /handle or through /start_focus, is answered with success and
\* already_active, creates no task and leaves the session state unchanged.
C32_DuplicateStartIsIdempotent ==
    [][ \A t \in 1..Len(tasks) :
          ( /\ state.is_running
            /\ tasks[t].kind = "request" /\ tasks[t].pc = "new"
            /\ ready # <<>> /\ Head(ready) = t
            /\ tasks'[t].pc # "new"
            /\ \/ tasks[t].req.endpoint = "/start_focus"
               \/ tasks[t].req.intent = "focus.start_monitoring" )
          => /\ AnswersWith(t, "already_active")
             /\ Unwrap(tasks'[t].ret).status = "success"
             /\ Len(tasks') = Len(tasks)
             /\ state' = state ]_vars


\* a monitor_loop task that has taken its first step and has not ended
Alive(t) == tasks[t].kind = "monitor" /\ tasks[t].pc \notin {"new", "done", "cancelled"}
AliveMonitors == { t \in 1..Len(tasks) : Alive(t) }

\* C33: under every interleaving of start and stop requests with the
\* awaits of the monitor loop, at most one monitor_loop task is alive.
C33_AtMostOneMonitorAlive == Cardinality(AliveMonitors) <= 1


\* a start or stop handler that has begun and not returned: only the stop
\* handler has an await, line 562
HandlerSuspended == \E t \in 1..Len(tasks) : tasks[t].kind = "request" /\ tasks[t].pc = "join"

\* C34: whenever no start or stop handler is suspended mid-execution,
\* state.is_running is true exactly when state.focus_task refers to a
\* monitor task.
C34_RunningIffFocusTask ==
    ~HandlerSuspended => (state.is_running <=> state.focus_task # None)


(***************************************************************************)
(* Termination of a cancelled monitor loop.  The event loop never stops    *)
(* stepping the tasks of its ready queue (weak fairness of LoopStep);      *)
(* nothing is assumed about sleeps running out or executor jobs            *)
(* completing.                                                             *)
(***************************************************************************)
\* starts with and without target apps that are a string (the analysis of
\* the latter raises, which sends the loop to the sleep of line 273), and
\* stops
StopInit ==
    /\ OtherIdle
    /\ state = MonitoringState
    /\ tasks = <<>>
    /\ ready = <<>>
    /\ inbox = [ pool |-> { StartRequest("Friday", <<>>, "u1"),
                            StartRequest("Friday", [target_apps |-> JInt(5)], "u1"),
                            StopRequest },
                 left |-> MaxStops, ticks |-> MaxTicks ]
    /\ shown = {}
    /\ now = 0
    /\ co \in { None, Some({StrictReply}) }

SpecStopFair == StopInit /\ [][FocusNext]_vars /\ WF_vars(LoopStep)

\* the stop handler of task t has answered with its stopped summary after
\* cancelling and awaiting task T
StoppedAfter(t, T) ==
    /\ tasks[t].kind = "request"
    /\ tasks[t].ret # None
    /\ Unwrap(tasks[t].ret).result = "stopped"
    /\ tasks[t].waits_for = T

\* a monitor task that a stop request has cancelled and that has not ended
CancelledPending(T) ==
    T <= Len(tasks) /\ tasks[T].kind = "monitor" /\ tasks[T].must_cancel

\* C35: no monitor task stays cancelled by a stop request without ending,
\* wherever it was suspended (from some point on no cancellation is
\* pending: a behaviour has finitely many requests), and
\* handle_stop_monitoring answers with its stopped summary only after the
\* task it awaited has ended.
C35_CancelledLoopTerminates ==
    /\ <>[](\A T \in 1..Len(tasks) : ~CancelledPending(T))
    /\ [](\A t \in 1..Len(tasks), T \in 1..Len(tasks) :
             StoppedAfter(t, T) => Ended(tasks[T]))

\* a stop has returned its summary after awaiting a monitor loop that was
\* cancelled in the sleep of its error path, and no start followed
C35_Witness ==
    \E t \in 1..Len(tasks), T \in 1..Len(tasks) :
        /\ StoppedAfter(t, T)
        /\ tasks[T].pc = "cancelled"
        /\ state.activity_history # <<>>
        /\ ~state.is_running
        /\ \A u \in 1..Len(tasks) : tasks[u].kind = "request" /\ u > t
                                      => tasks[u].req.intent # "focus.start_monitoring"


(***************************************************************************)
(* The activity history of a session that has been running for a while.    *)
(***************************************************************************)
\* the history after n iterations in the editor, one entry per tick
WorkHistory(n) == [i \in 1..n |-> ActivityEntry(i - 1, "main.py - VS Code")]

\* iterations between two analyses, lines 231 and 266
analysis_interval == 60
sleep_seconds == 5
AnalysisEvery == analysis_interval \div sleep_seconds

\* the analysis of the last iteration of the n in which one was due
LastAnalysisAfter(n) ==
    IF n <= AnalysisEvery THEN None
    ELSE Some(get_fallback_analysis("Cohere client not available",
                                    WorkHistory(n - ((n - 1) % AnalysisEvery))))

\* a session started n iterations ago: the start request has been answered,
\* the monitor loop is in its sleep, a start or a stop may arrive
HistoryInit ==
    /\ OtherIdle
    /\ \E n \in 0..HistoryLimit :
          /\ state = [ MonitoringState EXCEPT
                         !.is_running = TRUE,
                         !.user_id = Some("u1"),
                         !.focus_task = Some(2),
                         !.activity_history = WorkHistory(n),
                         !.paa_data = [ goal |-> JStr("Complete current tasks"),
                                        target_apps |-> JStr("VS Code, Browser, Terminal") ],
                         !.dg_data = parse_deadline_data_from_input("Friday").dg_data,
                         !.last_analysis = LastAnalysisAfter(n) ]
          /\ now = n
    /\ tasks = << [ NewTask("request", [StartRequest("Friday", <<>>, "u1")
                                          EXCEPT !.request_id = "1"])
                      EXCEPT !.pc = "done",
                             !.ret = Some(FocusResponse([request_id |-> "1"], "success",
                                                        "active", None, "")) ],
                  [ NewTask("monitor", NoRequest) EXCEPT !.pc = "sleep" ] >>
    /\ ready = <<>>
    /\ inbox = [ pool |-> { StartRequest("Monday", <<>>, "u2"), StopRequest },
                 left |-> 1, ticks |-> MaxTicks ]
    /\ shown = {}
    /\ co = None

SpecHistory == HistoryInit /\ [][FocusNext]_vars

\* the newest entry of a history
Newest(h) == h[Len(h)]

\* after is before with one entry appended, cut to its last HistoryLimit
\* entries in their order
AppendedAndTrimmed(before, after) ==
    /\ after # <<>>
    /\ Len(after) = IF Len(before) + 1 > HistoryLimit THEN HistoryLimit ELSE Len(before) + 1
    /\ LET full == Append(before, Newest(after))
       IN  after = SubSeq(full, Len(full) - Len(after) + 1, Len(full))

\* C36: state.activity_history never holds more than 100 entries at the
\* end of a monitor-loop iteration, and an iteration leaves the most recent
\* 100 entries, the new one included, in their original order.
C36_HistoryBounded ==
    /\ [](Len(state.activity_history) <= HistoryLimit)
    /\ [][ now' # now =>
             AppendedAndTrimmed(state.activity_history, state'.activity_history) ]_vars

\* the history is full and its oldest entry has been dropped
C36_Witness ==
    /\ Len(state.activity_history) = HistoryLimit
    /\ state.activity_history[1].timestamp > 0
    /\ Newest(state.activity_history).timestamp = now - 1


(***************************************************************************)
(* analyze_focus on request: a session has been started and stopped, its   *)
(* activity history and target apps are still in the state object, and an  *)
(* analysis is asked for through /handle.                                  *)
(***************************************************************************)
\* the answers of the LLM beyond FocusedReply and StrictReply
LowerCaseReply ==
    ChatJson(JObject([is_focused |-> JBool(FALSE), productivity_score |-> JInt(20),
                      supervisor_command |-> JStr("strict popup: back to work"),
                      reasoning |-> JStr("Distracted.")]))
NotifyReply ==
    ChatJson(JObject([is_focused |-> JBool(FALSE), productivity_score |-> JInt(55),
                      supervisor_command |-> JStr("NOTIFY: Refocus."),
                      reasoning |-> JStr("Drifting.")]))
StrictNoReasonReply ==
    ChatJson(JObject([is_focused |-> JBool(FALSE), productivity_score |-> JInt(20),
                      supervisor_command |-> JStr("STRICT POPUP: Back to work."),
                      reasoning |-> JNull]))
NoCommandReply ==
    ChatJson(JObject([is_focused |-> JBool(FALSE), productivity_score |-> JStr("low"),
                      supervisor_command |-> JNull]))
AnalyzeReplies ==
    { ChatRaises, ChatEmpty, ChatInvalid, ChatJson(JList(<<>>)), ChatJson(JObject(<<>>)),
      FocusedReply, StrictReply, LowerCaseReply, NotifyReply, StrictNoReasonReply,
      NoCommandReply }

\* the histories a stopped session leaves behind
Histories ==
    UNION { { [i \in 1..n |-> ActivityEntry(i - 1, ws[i])] : ws \in [1..n -> KnownTitles] } :
            n \in 0..MaxEntries }

AnalyzeRequest(intent, text) == FocusRequest("/handle", "", intent, text, <<>>, "u1")

\* the frames of the tasks of a session that was started and stopped
EndedSession ==
    << [ NewTask("request", [StartRequest("Friday", <<>>, "u1") EXCEPT !.request_id = "1"])
           EXCEPT !.pc = "done",
                  !.ret = Some(FocusResponse([request_id |-> "1"], "success", "active",
                                             None, "")) ],
       [ NewTask("monitor", NoRequest) EXCEPT !.pc = "done" ],
       [ NewTask("request", [StopRequest EXCEPT !.request_id = "3"])
           EXCEPT !.pc = "done", !.waits_for = 2,
                  !.ret = Some(FocusResponse([request_id |-> "3"], "success", "stopped",
                                             None, "")) ] >>

AnalyzeInit ==
    /\ OtherIdle
    /\ \E h \in Histories, apps \in { JStr(a) : a \in KnownApps } \cup { JInt(5) } :
          /\ state = [ MonitoringState EXCEPT
                         !.user_id = Some("u1"),
                         !.activity_history = h,
                         !.paa_data = [ goal |-> JStr("Complete current tasks"),
                                        target_apps |-> apps ],
                         !.dg_data = parse_deadline_data_from_input("Friday").dg_data ]
          /\ now = Len(h)
    /\ tasks = EndedSession
    /\ ready = <<>>
    /\ inbox = [ pool |-> { AnalyzeRequest("focus.analyze", "Friday"),
                            AnalyzeRequest("productivity.assess", DeadlineJson) },
                 left |-> 1, ticks |-> 0 ]
    /\ shown = {}
    /\ co \in { None, Some(AnalyzeReplies) }

AnalyzeNext == Arrive \/ ExecutorCompletes \/ LoopStep

SpecAnalyze == AnalyzeInit /\ [][AnalyzeNext]_vars

\* a STRICT POPUP command
IsStrictPopup(command) == command.t = "str" /\ Contains(command.s, "STRICT POPUP")

\* the window title of the most recent activity entry contains one of the
\* configured target apps
InTargetNow ==
    /\ state.activity_history # <<>>
    /\ state.paa_data.target_apps.t = "str"
    /\ InTargetApp(Newest(state.activity_history).window_title,
                   state.paa_data.target_apps.s)

\* the analyses analyze_focus has returned
ReturnedAnalyses ==
    { Unwrap(Unwrap(tasks[t].ret).analysis) :
        t \in { u \in 1..Len(tasks) : /\ tasks[u].ret # None
                                      /\ Unwrap(tasks[u].ret).analysis # None } }

\* C37: if the window title of the most recent activity entry contains a
\* target app, analyze_focus neither returns nor executes a STRICT POPUP
\* command, whether the analysis came from the LLM or from the fallback; a
\* downgraded analysis says CONTINUE MONITORING and no intervention.
C37_NoStrictPopupInTargetApp ==
    /\ InTargetNow =>
          /\ \A a \in ReturnedAnalyses : ~IsStrictPopup(a.supervisor_command)
          /\ \A c \in shown : ~Contains(c, "STRICT POPUP")
          /\ \A t \in 1..Len(tasks) :
                tasks[t].an_result # None
                   => ~IsStrictPopup(Unwrap(tasks[t].an_result).supervisor_command)
    /\ \A a \in ReturnedAnalyses :
          a.focus_state = "RECOVERING"
             => /\ a.supervisor_command = JStr(ContinueMonitoring)
                /\ ~a.intervention_needed

\* the LLM asked for a strict popup while the user is in a target app, and
\* the analysis came back downgraded
C37_Witness ==
    /\ InTargetNow
    /\ co # None
    /\ shown = {}
    /\ \E a \in ReturnedAnalyses :
          /\ a.focus_state = "RECOVERING"
          /\ a.reasoning = JStr("Distracted." \o OverrideNote)


(***************************************************************************)
(* handle_supervisor_request with every intent, texts the deadline parser  *)
(* raises on, and an LLM whose answers make handle_analyze_focus raise.    *)
(***************************************************************************)
HandleRequest(intent, text) == FocusRequest("/handle", "", intent, text, <<>>, "u1")

\* the service as constructed, or a session just started: the start request
\* has been answered and the monitor loop is in its first sleep
HandleInit ==
    /\ OtherIdle
    /\ \/ /\ state = MonitoringState
          /\ tasks = <<>>
       \/ /\ state = [ MonitoringState EXCEPT
                         !.is_running = TRUE,
                         !.user_id = Some("u1"),
                         !.focus_task = Some(2),
                         !.paa_data = [ goal |-> JStr("Complete current tasks"),
                                        target_apps |-> JStr("VS Code, Browser, Terminal") ],
                         !.dg_data = parse_deadline_data_from_input("Friday").dg_data ]
          /\ tasks = << [ NewTask("request", [StartRequest("Friday", <<>>, "u1")
                                                EXCEPT !.request_id = "1"])
                            EXCEPT !.pc = "done",
                                   !.ret = Some(FocusResponse([request_id |-> "1"], "success",
                                                              "active", None, "")) ],
                        [ NewTask("monitor", NoRequest) EXCEPT !.pc = "sleep" ] >>
    /\ ready = <<>>
    /\ inbox = [ pool |-> { HandleRequest("focus.start_monitoring", "Friday"),
                            HandleRequest("focus.start_monitoring", "5"),
                            HandleRequest("focus.stop_monitoring", ""),
                            HandleRequest("focus.analyze", "Friday"),
                            HandleRequest("productivity.assess", "[]"),
                            HandleRequest("focus.check_status", ""),
                            HandleRequest("focus.pause", "") },
                 left |-> MaxHandled, ticks |-> MaxTicks ]
    /\ shown = {}
    /\ now = 0
    /\ co = Some({NoCommandReply, FocusedReply})

SpecHandle == HandleInit /\ [][AnalyzeNext]_vars

\* the task of a /handle request has ended
Handled_(t) == tasks[t].kind = "request" /\ tasks[t].req.endpoint = "/handle" /\ Ended(tasks[t])

\* the deadline parser raises on the text: it is JSON and no object
ParserRaises(text) == text \in {"5", "[]"}

\* what a /handle request that has ended was answered with
ResponseIsRight(t) ==
    LET req == tasks[t].req
        response == Unwrap(tasks[t].ret)
    IN  /\ tasks[t].ret # None
        /\ response.request_id = req.request_id
        /\ response.status \in {"success", "error"}
        /\ response.status = "error" <=> response.error \in {"unknown_intent", "handler_error"}
        /\ response.error = "unknown_intent" <=> req.intent \notin intent_handlers
        /\ ( /\ req.intent \in {"focus.analyze", "productivity.assess"}
             /\ ParserRaises(req.text) ) => response.error = "handler_error"
        /\ ( /\ req.intent = "focus.start_monitoring"
             /\ ParserRaises(req.text) )
              => \/ response.error = "handler_error"
                 \/ response.result = "already_active"

\* the step of a request with an intent outside the handler table
UnknownIntentStep(t) ==
    /\ tasks[t].kind = "request" /\ tasks[t].pc = "new"
    /\ tasks[t].req.intent \notin intent_handlers
    /\ tasks'[t].pc # "new"

\* C38: handle_supervisor_request always answers with the request_id of
\* the request: status error and type unknown_intent for an intent outside
\* the handler table, with the monitoring state unchanged, and status error
\* and type handler_error when the handler raises.
C38_HandleAlwaysResponds ==
    /\ [](\A t \in 1..Len(tasks) : Handled_(t) => ResponseIsRight(t))
    /\ [][ \A t \in 1..Len(tasks) :
             UnknownIntentStep(t) => /\ state' = state
                                     /\ Len(tasks') = Len(tasks)
                                     /\ tasks'[t].ret # None ]_vars

\* while monitoring runs, one request was answered with handler_error and
\* one with unknown_intent
C38_Witness ==
    /\ state # <<>>
    /\ state.is_running
    /\ \E t \in 1..Len(tasks), u \in 1..Len(tasks) :
          /\ Handled_(t) /\ Unwrap(tasks[t].ret).error = "handler_error"
          /\ Handled_(u) /\ Unwrap(tasks[u].ret).error = "unknown_intent"


(***************************************************************************)
(* server.py, handle_query: the requests of /api/query on one event loop.  *)
(* A request runs from its start, or from the await it was suspended at,   *)
(* to its next await; in between no other request runs.  The awaits are    *)
(* execute_plan with its worker calls (line 132) and the task fetch of     *)
(* summarize_dependencies (line 203).  handle_general_query, the planner   *)
(* and compose_final_answer are plain calls.  The conversation store of    *)
(* app/conversation.py is the append-only log of the specification.        *)
(***************************************************************************)
FrontendRequest(q, cid) == [ query |-> q, conversation_id |-> cid ]

Payloads ==
    { FrontendRequest("  ", Some("c1")),
      FrontendRequest("create a task", Some("c1")),
      FrontendRequest("create a task", None) }

\* what handle_general_query may answer, lines 109-110
GeneralResults ==
    { [kind |-> "blocked", answer |-> None],
      [kind |-> "agent",   answer |-> None] }

\* the frame of one handle_query call; history is the number of turns that
\* get_history returned at line 86
NewHandling(payload) ==
    [ pc |-> "new", payload |-> payload, conversation_id |-> "",
      history |-> 0, planner_calls |-> 0, worker_calls |-> 0,
      dependencies |-> FALSE, ret |-> None ]

\* a turn; request, the call that appended it, is not stored by the program
Turn(role, content, r) == [ role |-> role, content |-> content, request |-> r ]

get_history(log, cid) == IF cid \in DOMAIN log THEN log[cid] ELSE <<>>

prepend_turn(log, cid, turn) ==
    [ c \in DOMAIN log \cup {cid} |->
        IF c = cid THEN <<turn>> \o get_history(log, cid) ELSE log[c] ]

append_turn(log, cid, turn) ==
    [ c \in DOMAIN log \cup {cid} |->
        IF c = cid THEN Append(get_history(log, cid), turn) ELSE log[c] ]

\* the conversation log and the frame of the running request
Handling(log, f) == [ log |-> log, frame |-> f ]

\* lines 113-120 and 212-220: both turns, then the response
AppendAndReturn(log, f, r, answer) ==
    Handling(append_turn(append_turn(log, f.conversation_id,
                                     Turn("user", f.payload.query, r)),
                         f.conversation_id, Turn("assistant", answer, r)),
             [f EXCEPT !.pc = "done", !.ret = Some(answer)])

\* HTTP 500: an exception leaves handle_query
InternalError(log, f) == Handling(log, [f EXCEPT !.pc = "failed"])

\* line 205: compose_final_answer returns an answer or raises
Compose(log, f, r, raises) ==
    IF raises THEN InternalError(log, f)
    ELSE AppendAndReturn(log, f, r, "answer to " \o f.payload.query)

\* lines 134-203: summarize_dependencies awaits the task fetch when a
\* task_dependency_agent outcome is there, and returns at once otherwise
AfterExecutePlan(log, f, r, raises) ==
    IF f.dependencies THEN Handling(log, [f EXCEPT !.pc = "summarizing"])
    ELSE Compose(log, f, r, raises)

\* lines 84-85: payload.conversation_id or str(uuid.uuid4())
ConversationId(payload, r) ==
    IF payload.conversation_id # None /\ Unwrap(payload.conversation_id) # ""
    THEN Unwrap(payload.conversation_id)
    ELSE "uuid-" \o ToString(r)

\* lines 81-132: from the start of handle_query to its first await
Begin(log, f, r, general, has_steps, raises) ==
    IF Strip(f.payload.query) = "" THEN Handling(log, [f EXCEPT !.pc = "rejected"])
    ELSE LET cid == ConversationId(f.payload, r)
             g == [f EXCEPT !.conversation_id = cid,
                            !.history = Len(get_history(log, cid))]
         IN  IF general.kind \in {"blocked", "general"}
             THEN AppendAndReturn(log, g, r,
                                  IF general.answer = None THEN ""
                                  ELSE Unwrap(general.answer))
             ELSE LET p == [g EXCEPT !.planner_calls = @ + 1]
                  IN  IF ~has_steps THEN AfterExecutePlan(log, p, r, raises)
                      ELSE Handling(log, [p EXCEPT !.pc = "executing",
                                                   !.worker_calls = @ + 1])

WorkerOutcomes == {"success", "dependencies", "raises"}

\* line 132: execute_plan returns after its last worker call, or raises
Resume(log, f, r, outcome, raises) ==
    IF outcome = "raises" THEN InternalError(log, f)
    ELSE AfterExecutePlan(log, [f EXCEPT !.dependencies = outcome = "dependencies"],
                          r, raises)

queryFrame == <<execVars, resolveVars, plannerVars, answerVars, concurrentVars, focusVars>>

QueryIdleOthers == ExecIdle /\ ResolveIdle /\ PlannerIdle /\ AnswerIdle /\ RunsIdle /\ FocusIdle

QueryInit ==
    /\ QueryIdleOthers
    /\ conversation_log = <<>>
    /\ handling = <<>>

\* the running request goes on to its next await or to its end
Continue(r, H) ==
    /\ conversation_log' = H.log
    /\ handling' = [handling EXCEPT ![r] = H.frame]
    /\ UNCHANGED queryFrame

\* a request reaches /api/query and handle_query runs to its first await
QueryArrives ==
    /\ Len(handling) < MaxQueries
    /\ \E payload \in Payloads, general \in GeneralResults,
          has_steps \in BOOLEAN, raises \in BOOLEAN :
          \E H \in { Begin(conversation_log, NewHandling(payload), Len(handling) + 1,
                           general, has_steps, raises) } :
             /\ conversation_log' = H.log
             /\ handling' = Append(handling, H.frame)
    /\ UNCHANGED queryFrame

WorkerReturns ==
    \E r \in 1..Len(handling) :
       /\ handling[r].pc = "executing"
       /\ \E outcome \in WorkerOutcomes, raises \in BOOLEAN :
             \E H \in { Resume(conversation_log, handling[r], r, outcome, raises) } :
                Continue(r, H)

TasksFetched ==
    \E r \in 1..Len(handling) :
       /\ handling[r].pc = "summarizing"
       /\ \E raises \in BOOLEAN :
             \E H \in { Compose(conversation_log, handling[r], r, raises) } :
                Continue(r, H)

QueryNext == QueryArrives \/ WorkerReturns \/ TasksFetched

SpecQuery == QueryInit /\ [][QueryNext]_vars

\* the positions of the turns request r appended to its conversation
TurnsOf(r) ==
    LET turns == get_history(conversation_log, handling[r].conversation_id)
    IN  { i \in 1..Len(turns) : turns[i].request = r }

\* request r appended the user turn and, right behind it, the assistant turn
TwoAdjacentTurns(r) ==
    LET turns == get_history(conversation_log, handling[r].conversation_id)
    IN  \E i \in 1..Len(turns) :
           /\ TurnsOf(r) = {i, i + 1}
           /\ turns[i].role = "user"
           /\ turns[i].content = handling[r].payload.query
           /\ turns[i + 1].role = "assistant"
           /\ turns[i + 1].content = Unwrap(handling[r].ret)

\* no turn of any conversation was appended by request r
NoTurnOf(r) ==
    \A c \in DOMAIN conversation_log :
       \A i \in 1..Len(conversation_log[c]) : conversation_log[c][i].request # r

\* C39: a request of /api/query that completes has appended exactly two
\* turns to its conversation, the user turn and right behind it the
\* assistant turn, whatever other requests on the conversation did in
\* between; a request rejected for an empty query has appended no turn and
\* has called neither the planner nor a worker.
C39_TwoAdjacentTurns ==
    \A r \in 1..Len(handling) :
       /\ handling[r].pc = "done" => TwoAdjacentTurns(r)
       /\ handling[r].pc = "rejected" =>
             /\ NoTurnOf(r)
             /\ handling[r].planner_calls = 0
             /\ handling[r].worker_calls = 0

\* two requests on conversation c1 both began before either appended a
\* turn, awaited their workers at the same time and completed, the later
\* one first; a third request was rejected
C39_Witness ==
    /\ Len(handling) = 3
    /\ handling[1].pc = "done" /\ handling[1].worker_calls > 0
    /\ handling[2].pc = "done" /\ handling[2].worker_calls > 0
    /\ handling[1].conversation_id = "c1" /\ handling[2].conversation_id = "c1"
    /\ handling[1].history = 0 /\ handling[2].history = 0
    /\ conversation_log["c1"][1].request = 2
    /\ handling[3].pc = "rejected"


=============================================================================
